---- MODULE Spec2Model ----
(***************************************************************************)
(* Model of electrum_nmc/interface.py: the per-peer Electrum interface.    *)
(*                                                                         *)
(*   Spec         Interface.run, its sub-tasks and the header sync state   *)
(*                machine (step, backward probe, binary search, fork       *)
(*                resolution, sync_until, request_chunk) of several        *)
(*                interfaces sharing the blockchain store and bhi_lock.    *)
(*   LockSpec     the same machine with every interface started, for the   *)
(*                serialization of header processing under bhi_lock.       *)
(*   SessionSpec  NotificationSession: subscribe, handle_request and the   *)
(*                responses of the server.                                 *)
(*   SemSpec      NotificationSession.send_request and its in-flight       *)
(*                semaphore (FairSemSpec adds the scheduler's fairness).   *)
(*   CallSpec     get_block_header and request_chunk as functions of the   *)
(*                call and of the server's response.                       *)
(*   CertSpec     the pinned certificate file over successive interfaces   *)
(*                for one server (_get_ssl_context, save_certificate).     *)
(*   ChunkSpec    concurrent request_chunk calls and _requested_chunks.    *)
(***************************************************************************)
EXTENDS Integers, Sequences, FiniteSets, TLC

VARIABLES
    \* ---- Spec: blockchain store and Network
    chains,           \* blockchain.blockchains: sequence of chains (insertion order)
    bhi_lock,         \* network.bhi_lock: the interface holding it, 0 when free
    \* ---- Spec: per interface
    run_pc,           \* position of Interface.run
    ready,            \* self.ready: "pending" | "fulfilled" | "cancelled"
    got_disconnected, \* self.got_disconnected: "pending" | "fulfilled"
    tip,              \* self.tip
    tip_header,       \* self.tip_header
    blockchain,       \* self.blockchain: index into chains, 0 for None
    header_queue,     \* header_queue of run_fetch_blocks
    fb_pc,            \* position of run_fetch_blocks (the tip watcher)
    sy,               \* locals of step / sync_until / the searches
    closing,          \* session.is_closing()
    tips_sent,        \* tips the server has sent so far
    server,           \* what the server of each interface may send
    \* ---- Spec: history (what happened, for the properties)
    hlog,             \* what the disconnect handler did, in order
    handed,           \* headers handed to the Blockchain collaborator
    obs,              \* observations of the last operation
    \* ---- SessionSpec
    subscriptions,    \* session.subscriptions[K]: the queues, in order of subscription
    cache,            \* session.cache[K], 0 when K is not in the cache
    queues,           \* contents of the subscribers' queues
    sub_pc,           \* position of each subscribe call
    sub_result,       \* response a subscribe call has received
    wire,             \* messages from the server, in arrival order
    server_val,       \* the server's current value for K (values are numbered)
    notified,         \* last notification of K handled by handle_request, 0 for none
    slog,             \* history of the session: notifications accepted and
                      \* rejected, requests sent and values put by each subscribe
    \* ---- SemSpec
    sem_value,        \* in_flight_requests_semaphore._value
    sem_waiters,      \* number of send_request calls waiting for a slot
    in_flight,        \* requests on the wire
    sem_granted,      \* waiters that were handed a slot and have not resumed yet
    tagged,           \* one observed send_request: "idle", "waiting", "granted",
                      \* "flying", then how it ended: "returned",
                      \* "RequestTimedOut", "failed"
    tagged_ahead,     \* waiters queued ahead of the observed request
    tagged_waited,    \* whether the observed request had to wait for its slot
    tagged_timer,     \* the deadline of its wait_for: "unset", "running", "expired"
    \* ---- CallSpec: one call of a function of the interface
    call,             \* the function and its inputs
    ret,              \* what it returned, or that it raised
    \* ---- CertSpec: the certificate store of one host
    cert_file,        \* the file certs/<host>
    cert_expired,     \* the certificates whose validity has ended
    att,              \* the connection attempt under way (one Interface)
    cert_hist,        \* history: first content written, deletions so far
    \* ---- ChunkSpec: concurrent request_chunk calls on one interface
    requested_chunks, \* self._requested_chunks
    chunk_calls       \* each caller's call of request_chunk: its arguments and
                      \* where it is

ifaceVars == <<chains, bhi_lock, run_pc, ready, got_disconnected, tip, tip_header,
               blockchain, header_queue, fb_pc, sy, closing, tips_sent,
               server, hlog, handed, obs>>
sessionVars == <<subscriptions, cache, queues, sub_pc, sub_result, wire,
                 server_val, notified, slog>>
semVars == <<sem_value, sem_waiters, in_flight, sem_granted, tagged, tagged_ahead,
             tagged_waited, tagged_timer>>
callVars == <<call, ret>>
certVars == <<cert_file, cert_expired, att, cert_hist>>
chunkVars == <<requested_chunks, chunk_calls>>
vars == <<ifaceVars, sessionVars, semVars, callVars, certVars, chunkVars>>

(***************************************************************************)
(* Program constants                                                       *)
(***************************************************************************)
ChunkSize == 2016
ChunkCutoff == 10
SemaphoreSlots == 100
\* constants.net.max_checkpoint()
MaxCheckpoint == 2

(***************************************************************************)
(* Bounds of the model                                                     *)
(***************************************************************************)
MaxTips == 2          \* tips one server sends
MaxChains == 3        \* chains the store may hold
Ifaces == {1, 2}
Branches == {0, 1}    \* 0: the checkpointed chain; 1: a branch off it
BranchPoint == [b \in Branches |-> IF b = 0 THEN 0 ELSE 5]
InitHeights == {2, 7}        \* height of the local chain at start
TipHeights == {1, 2, 8, 25}  \* tip heights servers announce
LieCounts == {9, 12, 30}        \* 'count' fields a server may claim for a chunk
ShortChunkHeights == {8}     \* headers in a chunk shorter than asked for
ShortChunk == CHOOSE n \in ShortChunkHeights : TRUE
MaxQueues == 2        \* subscribers of the key K
Queues == 1 .. MaxQueues
MaxNotifications == 3 \* changes of the server's value for K
MaxWaiters == 2       \* other send_request calls waiting for a slot
\* an interface of the Network outside the model
OtherInterface == Cardinality(Ifaces) + 1

Min(a, b) == IF a < b THEN a ELSE b
Max(a, b) == IF a > b THEN a ELSE b

(***************************************************************************)
(* Headers and the Blockchain collaborator                                 *)
(***************************************************************************)
NoHeader == [block_height |-> -1, blk |-> 0]
\* the block a chain following branch b has at height h
BlockAt(b, h) == IF b # 0 /\ h >= BranchPoint[b] THEN b ELSE 0
\* the header of a server following branch b at height h
PeerHeader(b, h) == [block_height |-> h, blk |-> BlockAt(b, h)]
\* the branch a block belongs to, hence the block before it
PrevBlock(hdr) == BlockAt(hdr.blk, hdr.block_height - 1)

\* Blockchain.check_header(header) of one chain
ChainHas(c, hdr) ==
    /\ hdr.block_height >= 0
    /\ hdr.block_height <= c.height
    /\ BlockAt(c.br, hdr.block_height) = hdr.blk
\* Blockchain.can_connect(header, check_height) of one chain
ChainCanConnect(c, hdr, check_height) ==
    /\ hdr.block_height >= 0
    /\ check_height => c.height = hdr.block_height - 1
    /\ IF hdr.block_height = 0 THEN hdr.blk = 0
       ELSE /\ hdr.block_height - 1 <= c.height
            /\ BlockAt(c.br, hdr.block_height - 1) = PrevBlock(hdr)
LowestIn(S) == IF S = {} THEN 0 ELSE CHOOSE x \in S : \A y \in S : x <= y
\* blockchain.check_header(header): the first chain holding it, 0 for None
check_header(cs, hdr) == LowestIn({k \in DOMAIN cs : ChainHas(cs[k], hdr)})
\* blockchain.can_connect(header): the first chain it extends, 0 for None
can_connect(cs, hdr) == LowestIn({k \in DOMAIN cs : ChainCanConnect(cs[k], hdr, TRUE)})
\* blockchain.get_best_chain()
get_best_chain(cs) ==
    LowestIn({k \in DOMAIN cs : \A j \in DOMAIN cs : cs[j].height <= cs[k].height})
\* max([0] + [x.height() for x in chains])
LocalMax(cs) == IF cs = <<>> THEN 0
                ELSE cs[get_best_chain(cs)].height
\* Blockchain.save_header(header)
save_header(cs, k, hdr) ==
    [cs EXCEPT ![k] = [@ EXCEPT !.height = hdr.block_height,
                                !.br = IF hdr.blk # 0 THEN hdr.blk ELSE @]]
\* Blockchain.fork(header): a new chain starting with header, known to the store
fork(cs, hdr) ==
    Append(cs, [forkpoint |-> hdr.block_height, height |-> hdr.block_height,
                br |-> hdr.blk])
\* Blockchain.connect_chunk(index, hexdata, proof_was_provided): whether the n
\* headers of branch b from height start on link to chain k
ChunkConnects(cs, k, start, n, b, valid) ==
    /\ valid
    /\ n > 0
    /\ start - 1 <= cs[k].height
    /\ start > 0 => BlockAt(cs[k].br, start - 1) = BlockAt(b, start - 1)
connect_chunk(cs, k, start, n, b) ==
    [cs EXCEPT ![k] = [@ EXCEPT !.height = start + n - 1,
                                !.br = IF BlockAt(b, start + n - 1) # 0 THEN b
                                       ELSE 0]]

(***************************************************************************)
(* Checkpoint validation and the header fetchers                           *)
(***************************************************************************)
ExpectedRoot == "VERIFICATION_BLOCK_MERKLE_ROOT"
\* blockchain.root_from_proof(hash, branch, height): a genuine merkle path
\* proves only the checkpointed chain's own header at that height
root_from_proof(hdr, branch, height) ==
    IF branch = "path" /\ hdr.blk = 0 /\ hdr.block_height = height
                       /\ height <= MaxCheckpoint
    THEN ExpectedRoot ELSE "other"
\* Interface.validate_checkpoint_result: TRUE when it returns, FALSE when it raises
validate_checkpoint_result(root, branch, hdr, height) ==
    /\ root = ExpectedRoot
    /\ root_from_proof(hdr, branch, height) = ExpectedRoot

\* what a server may answer to blockchain.block.header(height, cp_height)
Envelopes == {[root |-> r, branch |-> p] : r \in {ExpectedRoot, "other"},
                                          p \in {"path", "junk"}}
\* env: "none", the response is the hex header alone; "full", it is a dict with
\* 'root', 'branch' and 'header'; "partial", a dict that lacks one of them
HeaderResponses(bs, h) ==
    {[env |-> k, root |-> "other", branch |-> "junk", hdr |-> PeerHeader(b, h)] :
        k \in {"none", "partial"}, b \in bs}
    \cup {[env |-> "full", root |-> e.root, branch |-> e.branch, hdr |-> PeerHeader(b, h)] :
        e \in Envelopes, b \in bs}

\* get_block_header taking an envelope it did not ask for as a proof
get_block_header_trusts_unrequested_proof(height, must_provide_proof, resp) ==
    IF resp.env = "full"
       /\ validate_checkpoint_result(resp.root, resp.branch, resp.hdr, height)
    THEN [ok |-> TRUE, header |-> resp.hdr, proof |-> TRUE]
    ELSE [ok |-> resp.env = "none" /\ height > MaxCheckpoint,
          header |-> IF resp.env = "none" /\ height > MaxCheckpoint
                     THEN resp.hdr ELSE NoHeader,
          proof |-> FALSE]
\* Interface.get_block_header(height, assert_mode, must_provide_proof), resp
\* being the response to its request:
\* [ok, header, proof_was_provided]; ok = FALSE when it raises
get_block_header(height, must_provide_proof, resp) ==
    LET cp_height == IF height > MaxCheckpoint THEN 0 ELSE MaxCheckpoint
        raised == [ok |-> FALSE, header |-> NoHeader, proof |-> FALSE]
    IN
    IF height > MaxCheckpoint /\ must_provide_proof THEN raised
    ELSE IF resp.env = "full"
    THEN IF cp_height = 0 THEN raised
         ELSE IF validate_checkpoint_result(resp.root, resp.branch, resp.hdr, height)
              THEN [ok |-> TRUE, header |-> resp.hdr, proof |-> TRUE]
              ELSE raised
    ELSE IF cp_height # 0 THEN raised
    \* hexheader = res, a dict: bytes.fromhex raises
    ELSE IF resp.env = "partial" THEN raised
    ELSE [ok |-> TRUE, header |-> resp.hdr, proof |-> FALSE]

\* request_chunk: index, size and start of the chunk holding height
ChunkIndex(height) == height \div ChunkSize
ChunkStart(height) == ChunkIndex(height) * ChunkSize
ChunkLen(height, tipv) ==
    Max(Min(ChunkSize, tipv - ChunkStart(height) + 1), 0)

\* what a server may answer to blockchain.block.headers(start, count, cp_height):
\* n headers of branch b (valid: they pass the collaborator's verification), a
\* 'count' field, and possibly a proof of the last one
ChunkResponses(bs, size) ==
    {[n |-> n, count |-> c, b |-> b, valid |-> v, env |-> e, root |-> r, branch |-> p] :
        n \in {Min(ShortChunk, size), size, size + 1},
        c \in {size} \cup LieCounts,
        b \in bs, v \in BOOLEAN,
        e \in BOOLEAN, r \in {ExpectedRoot}, p \in {"path"}}

\* Interface.request_headers, from the response on:
\* [ok, proof_was_provided]; ok = FALSE when it raises
request_headers(height, count, resp) ==
    LET top_height == height + count - 1
        cp_height == IF top_height > MaxCheckpoint THEN 0 ELSE MaxCheckpoint
        header_height == height + resp.n - 1
    IN
    IF resp.n > count THEN [ok |-> FALSE, proof |-> FALSE]
    ELSE IF resp.env
    THEN IF cp_height = 0 THEN [ok |-> FALSE, proof |-> FALSE]
         ELSE IF validate_checkpoint_result(resp.root, resp.branch,
                                            PeerHeader(resp.b, header_height),
                                            header_height)
              THEN [ok |-> TRUE, proof |-> TRUE]
              ELSE [ok |-> FALSE, proof |-> FALSE]
    ELSE IF cp_height # 0 THEN [ok |-> FALSE, proof |-> FALSE]
         ELSE [ok |-> TRUE, proof |-> FALSE]

(***************************************************************************)
(* The sync state machine.  A frame F is what one run of the tip watcher   *)
(* between two suspension points reads and writes:                         *)
(*   cs   blockchain.blockchains        bc   self.blockchain               *)
(*   s    the locals                    pc   where the watcher suspends    *)
(*   err  the exception it raised       tip  self.tip                      *)
(*   handed, res   history: headers handed to the collaborator, and the    *)
(*                 result of the step that just returned                   *)
(***************************************************************************)
NoRes == [last |-> "none", height |-> -1, good |-> 0, bad |-> 0,
          bad_header |-> NoHeader, probes |-> {}, from |-> "none", bh |-> -1,
          prev_last |-> "none", prev_height |-> 0,
          entry |-> [bc |-> 0, bh |-> -1, chains |-> 0],
          sync |-> [last |-> "none", height |-> -1, next_height |-> -1]]
InitSy == [height |-> 0, header |-> NoHeader, bad |-> 0, bad_header |-> NoHeader,
           good |-> 0, proof |-> FALSE, checkp |-> FALSE,
           last |-> "none", prev_last |-> "none", prev_height |-> 0,
           next_height |-> 0, caller |-> "none", probes |-> {},
           timeout |-> "none", entry |-> [bc |-> 0, bh |-> -1, chains |-> 0]]

\* history: what step, a search or sync_until leaves behind (last is "raised"
\* when it raised)
Outcome(F, last, height) ==
    [last |-> last, height |-> height, good |-> F.s.good, bad |-> F.s.bad,
     bad_header |-> F.s.bad_header, probes |-> F.s.probes, from |-> F.s.caller,
     bh |-> IF F.bc = 0 THEN -1 ELSE F.cs[F.bc].height,
     prev_last |-> F.s.prev_last, prev_height |-> F.s.prev_height,
     entry |-> F.s.entry, sync |-> NoRes.sync]
\* an exception leaves the tip watcher
Raise(F, kind) ==
    [F EXCEPT !.pc = "raised", !.err = kind, !.s = InitSy,
              !.res = Outcome(F, "raised", -1)]
\* an exception of the session (timeout, malformed response) leaves the tip watcher
Fail(F, kind) == [F EXCEPT !.pc = "raised", !.err = kind, !.s = InitSy]
\* the session's default_timeout, as open_session sets it
default_timeout == "Generic"
\* the timeout the request made at 'pc' passes to send_request: get_block_header
\* passes the Urgent class, request_headers passes none
timeout_argument(pc) ==
    IF pc \in {"step", "backward", "binary"} THEN "Urgent" ELSE "None"
\* send_request: a call without a timeout gets the session's default
send_request_timeout(timeout) ==
    IF timeout = "None" THEN default_timeout ELSE timeout
\* the tip watcher waits at 'pc'; s.timeout is the timeout class of the request
\* it waits for ("none" while it waits for bhi_lock)
Suspend(F, pc) ==
    [F EXCEPT !.pc = pc,
              !.s.timeout = IF pc = "lock" THEN "none"
                            ELSE send_request_timeout(timeout_argument(pc))]
\* a header handed to can_connect / save_header, with whether it was validated
\* (history keeps the headers at or below the checkpoint)
Hand(F, hdr, proof) ==
    IF hdr.block_height > MaxCheckpoint THEN F
    ELSE [F EXCEPT !.handed = @ \cup {[height |-> hdr.block_height, proven |-> proof,
                                       how |-> "header"]}]
HandChunk(F, start, n, proof) ==
    [F EXCEPT !.handed = @ \cup {[height |-> h, proven |-> proof, how |-> "chunk"] :
                                 h \in start .. Min(start + n - 1, MaxCheckpoint)}]
\* history: what the collaborator said of a probed header
Probe(F, hdr) ==
    [F EXCEPT !.s.probes = @ \cup {[height |-> hdr.block_height,
                                    checks |-> check_header(F.cs, hdr) # 0,
                                    connects |-> can_connect(F.cs, hdr) # 0,
                                    blk |-> hdr.blk, prev |-> PrevBlock(hdr)]}]

\* request_chunk(height, next_height), up to the request
request_chunk_send(F) == Suspend(F, "chunk")

\* what request_chunk(height, tip) returns, resp being the response to its
\* request of 'size' headers from 'start': [ok, conn, count]; ok = FALSE when it
\* raises.  The count returned is the 'count' field of the response
request_chunk_returns(cs, bc, height, tipv, resp) ==
    LET start == ChunkStart(height)
        size == ChunkLen(height, tipv)
        r == request_headers(start, size, resp)
        conn == ChunkConnects(cs, bc, start, resp.n, resp.b, resp.valid)
    IN
    [ok |-> r.ok, proof |-> r.proof, start |-> start, size |-> size,
     conn |-> r.ok /\ conn,
     count |-> IF r.ok /\ conn THEN resp.count ELSE 0]

\* step(height), header is None: up to the request of get_block_header
step_fetch(F, height, caller) ==
    IF ~(0 <= height /\ height <= F.tip)
    THEN Raise(F, "exception")
    ELSE Suspend([F EXCEPT !.s.height = height, !.s.caller = caller,
                           !.s.probes = {}], "step")

\* sync_until leaving its loop one height early
sync_loop_stops_one_short(F) ==
    IF F.s.last = "none" \/ F.s.height < F.s.next_height
    THEN LET G == [F EXCEPT !.s.prev_last = F.s.last, !.s.prev_height = F.s.height] IN
         IF G.s.next_height > G.s.height + ChunkCutoff
         THEN request_chunk_send(G)
         ELSE step_fetch(G, G.s.height, "sync")
    ELSE [F EXCEPT !.pc = "post", !.s = InitSy,
                   !.res.sync = [last |-> F.s.last, height |-> F.s.height,
                                 next_height |-> F.s.next_height]]
\* sync_until: the head of the loop; history: res.sync is what it returns
sync_loop(F) ==
    IF F.s.last = "none" \/ F.s.height <= F.s.next_height
    THEN LET G == [F EXCEPT !.s.prev_last = F.s.last, !.s.prev_height = F.s.height] IN
         IF G.s.next_height > G.s.height + ChunkCutoff
         THEN request_chunk_send(G)
         ELSE step_fetch(G, G.s.height, "sync")
    ELSE [F EXCEPT !.pc = "post", !.s = InitSy,
                   !.res.sync = [last |-> F.s.last, height |-> F.s.height,
                                 next_height |-> F.s.next_height]]

\* sync_until(height): next_height = self.tip, last = None
sync_until(F, height) ==
    sync_loop([F EXCEPT !.s = [InitSy EXCEPT !.height = height, !.next_height = F.tip]])

\* sync_until: the assertion that ends an iteration
sync_progress(F) ==
    IF <<F.s.prev_last, F.s.prev_height>> = <<F.s.last, F.s.height>>
    THEN Raise(F, "exception")
    ELSE sync_loop(F)

\* step returns (last, height) to its caller
step_return(F, last, height) ==
    LET R == [F EXCEPT !.res = Outcome(F, last, height)] IN
    IF F.s.caller = "tip"
    THEN \* _process_header_at_tip
         IF height <= R.tip THEN sync_until(R, height)
         ELSE [R EXCEPT !.pc = "post", !.s = InitSy]
    ELSE \* sync_until: last, height = await self.step(height); step's locals are gone
         LET G == [R EXCEPT !.s = [InitSy EXCEPT !.last = last, !.height = height,
                                                 !.prev_last = F.s.prev_last,
                                                 !.prev_height = F.s.prev_height,
                                                 !.next_height = F.s.next_height,
                                                 !.caller = F.s.caller]]
         IN
         IF F.s.caller = "sync" THEN sync_progress(G)
         ELSE \* the chunk did not connect: 'continue'
              sync_loop(G)

\* fork resolution that forks whenever the assertions hold
resolve_potential_chain_fork_always_forks(F0) ==
    LET good == F0.s.good
        bad == F0.s.bad
        bad_header == F0.s.bad_header
        bh == F0.cs[F0.bc].height
        F == [F0 EXCEPT !.s.entry = [bc |-> F0.bc, bh |-> bh, chains |-> Len(F0.cs)]]
        cs2 == fork(F.cs, bad_header)
    IN
    IF good + 1 # bad \/ bad # bad_header.block_height
       \/ check_header(F.cs, bad_header) # 0
       \/ ~(bh >= good)
    THEN Raise(F, "exception")
    ELSE step_return([F EXCEPT !.cs = cs2, !.bc = Len(cs2)], "fork", bad + 1)
\* _resolve_potential_chain_fork_given_forkpoint(good, bad, bad_header); history:
\* s.entry is the binding, the height of the bound chain and the number of
\* chains at entry
resolve_potential_chain_fork_given_forkpoint(F0) ==
    LET good == F0.s.good
        bad == F0.s.bad
        bad_header == F0.s.bad_header
        bh == F0.cs[F0.bc].height
        F == [F0 EXCEPT !.s.entry = [bc |-> F0.bc, bh |-> bh, chains |-> Len(F0.cs)]]
    IN
    IF good + 1 # bad \/ bad # bad_header.block_height
       \/ check_header(F.cs, bad_header) # 0
       \/ ~(bh >= good)
    THEN Raise(F, "exception")
    ELSE IF bh = good
    THEN step_return(F, "no_fork", good + 1)
    ELSE LET cs2 == fork(F.cs, bad_header)
             b == Len(cs2)
         IN IF cs2[b].forkpoint # bad
            THEN Raise([F EXCEPT !.cs = cs2, !.bc = b], "exception")
            ELSE step_return([F EXCEPT !.cs = cs2, !.bc = b], "fork", bad + 1)

\* _search_headers_binary: the head of the loop, up to the request
binary_fetch(F) ==
    IF ~(F.s.good < F.s.bad)
    THEN Raise(F, "exception")
    ELSE Suspend([F EXCEPT !.s.height = (F.s.good + F.s.bad) \div 2], "binary")

\* _search_headers_binary(height, bad, bad_header, chain), up to the first request
search_headers_binary(F, chain) ==
    IF F.s.bad # F.s.bad_header.block_height \/ check_header(F.cs, F.s.bad_header) # 0
    THEN Raise(F, "exception")
    ELSE binary_fetch([F EXCEPT !.bc = IF chain # 0 THEN chain ELSE @,
                                !.s.good = F.s.height])

\* the binary search without 'self.blockchain = chain' (line 648)
binary_response_keeps_binding(F, hdr) ==
    LET chain == check_header(F.cs, hdr)
        G == IF chain # 0
             THEN [F EXCEPT !.s.good = F.s.height]
             ELSE [F EXCEPT !.s.bad = F.s.height, !.s.bad_header = hdr]
        H == Probe(G, hdr)
    IN
    IF H.s.good + 1 = H.s.bad
    THEN IF ~ChainCanConnect(H.cs[H.bc], H.s.bad_header, FALSE)
         THEN Raise(H, "exception")
         ELSE IF check_header(H.cs, H.s.bad_header) # 0
              THEN Raise(H, "exception")
              ELSE resolve_potential_chain_fork_given_forkpoint(H)
    ELSE binary_fetch(H)
\* the binary search without 'bad_header = header' (line 652)
binary_response_stale_bad_header(F, hdr) ==
    LET chain == check_header(F.cs, hdr)
        G == IF chain # 0
             THEN [F EXCEPT !.bc = chain, !.s.good = F.s.height]
             ELSE [F EXCEPT !.s.bad = F.s.height]
        H == Probe(G, hdr)
    IN
    IF H.s.good + 1 = H.s.bad
    THEN IF ~ChainCanConnect(H.cs[H.bc], H.s.bad_header, FALSE)
         THEN Raise(H, "exception")
         ELSE IF check_header(H.cs, H.s.bad_header) # 0
              THEN Raise(H, "exception")
              ELSE resolve_potential_chain_fork_given_forkpoint(H)
    ELSE binary_fetch(H)
\* _search_headers_binary: from the response of get_block_header on
binary_response(F, hdr) ==
    LET chain == check_header(F.cs, hdr)
        G == IF chain # 0
             THEN [F EXCEPT !.bc = chain, !.s.good = F.s.height]
             ELSE [F EXCEPT !.s.bad = F.s.height, !.s.bad_header = hdr]
        H == Probe(G, hdr)
    IN
    IF H.s.good + 1 = H.s.bad
    THEN IF ~ChainCanConnect(H.cs[H.bc], H.s.bad_header, FALSE)
         THEN Raise(H, "exception")
         ELSE IF check_header(H.cs, H.s.bad_header) # 0
              THEN Raise(H, "exception")
              ELSE resolve_potential_chain_fork_given_forkpoint(H)
    ELSE binary_fetch(H)

\* iterate without the clamp to max_checkpoint()
backward_fetch_unclamped(F) ==
    Suspend([F EXCEPT !.s.checkp = F.s.height <= MaxCheckpoint], "backward")
\* _search_headers_backwards.iterate, up to the request of get_block_header
backward_fetch(F) ==
    IF F.s.height <= MaxCheckpoint
    THEN Suspend([F EXCEPT !.s.height = MaxCheckpoint, !.s.checkp = TRUE], "backward")
    ELSE Suspend([F EXCEPT !.s.checkp = FALSE], "backward")

\* _search_headers_backwards(height, header), up to the first request
search_headers_backwards(F, height, header) ==
    IF check_header(F.cs, header) # 0
    THEN Raise(F, "exception")
    ELSE backward_fetch([F EXCEPT !.s.bad = height, !.s.bad_header = header,
                                  !.s.height = Min(LocalMax(F.cs) + 1, height - 1),
                                  !.s.proof = FALSE])

\* step: after the backward probe returned (height, header, bad, bad_header, proof)
step_after_backwards(F) ==
    LET header == F.s.header
        chain == check_header(F.cs, header)
        cc == can_connect(F.cs, header)
        G == Hand(F, header, F.s.proof)
    IN
    IF chain = 0 /\ cc = 0 THEN Raise(G, "exception")
    ELSE IF cc # 0
    THEN step_return([Hand(G, header, G.s.proof) EXCEPT
                         !.bc = cc, !.cs = save_header(G.cs, cc, header)],
                     "catchup", G.s.height + 1)
    ELSE search_headers_binary(G, chain)

\* _search_headers_backwards: from the response of get_block_header on
backward_response(F, hdr, proof) ==
    LET G == Probe(Hand([F EXCEPT !.s.header = hdr, !.s.proof = proof], hdr, proof), hdr)
        chain == check_header(G.cs, hdr)
        cc == can_connect(G.cs, hdr)
    IN
    IF chain # 0 \/ cc # 0
    THEN \* the loop ends
         IF check_header(G.cs, G.s.bad_header) # 0 THEN Raise(G, "exception")
         ELSE step_after_backwards(G)
    ELSE IF G.s.checkp
    THEN Raise(G, "graceful")
    ELSE LET delta == G.tip - G.s.height IN
         backward_fetch([G EXCEPT !.s.bad = G.s.height, !.s.bad_header = hdr,
                                  !.s.height = G.tip - 2 * delta])

\* step(height, header): from the header on
step(F, height, header, proof) ==
    LET chain == check_header(F.cs, header)
        G == Probe([F EXCEPT !.s.height = height, !.s.header = header,
                             !.s.proof = proof], header)
    IN
    IF chain # 0
    THEN step_return([G EXCEPT !.bc = chain], "catchup", height + 1)
    ELSE LET cc == can_connect(G.cs, header)
             H == Hand(G, header, proof)
         IN IF cc = 0
            THEN search_headers_backwards(H, height, header)
            ELSE step_return([Hand(H, header, proof) EXCEPT
                                 !.bc = cc, !.cs = save_header(H.cs, cc, header)],
                             "catchup", height + 1)

\* _process_header_at_tip, once it holds bhi_lock
process_header_at_tip(F, tiph) ==
    IF F.bc = 0 THEN Raise(F, "exception")
    ELSE IF F.cs[F.bc].height >= F.tip /\ ChainHas(F.cs[F.bc], tiph)
    THEN [F EXCEPT !.pc = "post", !.s = InitSy]
    ELSE IF ~(0 <= F.tip) THEN Raise(F, "exception")
    ELSE step([F EXCEPT !.s = [InitSy EXCEPT !.caller = "tip"]], F.tip, tiph, FALSE)

\* sync_until: request_chunk(height, next_height), from the response on
request_chunk(F, resp) ==
    LET height == F.s.height
        start == ChunkStart(height)
        r == request_chunk_returns(F.cs, F.bc, height, F.s.next_height, resp)
    IN
    IF ~r.ok THEN Fail(F, "exception")
    ELSE LET G == HandChunk(F, start, resp.n, r.proof) IN
         IF ~r.conn
         THEN \* could_connect is false
              IF height <= MaxCheckpoint THEN Raise(G, "graceful")
              ELSE step_fetch(G, height, "sync_continue")
         ELSE LET H == [G EXCEPT !.cs = connect_chunk(G.cs, G.bc, start, resp.n, resp.b),
                                 !.s.height = start + r.count,
                                 !.s.last = "catchup"]
              IN IF ~(H.s.height <= H.s.next_height + 1)
                 THEN Raise(H, "exception")
                 ELSE sync_progress(H)

(***************************************************************************)
(* The latches (asyncio.Future) and mark_ready                             *)
(***************************************************************************)
\* Future.set_result: InvalidStateError unless the future is pending
future_set_result(f) == IF f = "pending" THEN "fulfilled" ELSE "InvalidStateError"
\* Future.cancel: no effect on a future that is done
future_cancel(f) == IF f = "pending" THEN "cancelled" ELSE f

\* mark_ready without the cancelled() / done() tests of lines 329-332
mark_ready_unchecked(rdy, cs, tiph, bc) ==
    LET chain == check_header(cs, tiph)
        b == IF chain = 0 THEN get_best_chain(cs) ELSE chain
    IN IF tiph = NoHeader \/ b = 0 \/ future_set_result(rdy) = "InvalidStateError"
       THEN [ready |-> rdy, bc |-> b, outcome |-> "exception"]
       ELSE [ready |-> future_set_result(rdy), bc |-> b, outcome |-> "set"]
\* mark_ready binding to the chain that checks the tip header only (no
\* get_best_chain, no assertion)
mark_ready_no_fallback(rdy, cs, tiph, bc) ==
    IF rdy = "cancelled"
    THEN [ready |-> rdy, bc |-> bc, outcome |-> "graceful"]
    ELSE IF rdy # "pending"
    THEN [ready |-> rdy, bc |-> bc, outcome |-> "noop"]
    ELSE [ready |-> future_set_result(rdy), bc |-> check_header(cs, tiph),
          outcome |-> "set"]
\* Interface.mark_ready: [ready, bc, outcome]
mark_ready(rdy, cs, tiph, bc) ==
    IF rdy = "cancelled"
    THEN [ready |-> rdy, bc |-> bc, outcome |-> "graceful"]
    ELSE IF rdy # "pending"
    THEN [ready |-> rdy, bc |-> bc, outcome |-> "noop"]
    ELSE LET chain == check_header(cs, tiph)
             b == IF chain = 0 THEN get_best_chain(cs) ELSE chain
         IN IF tiph = NoHeader
            THEN [ready |-> rdy, bc |-> bc, outcome |-> "exception"]
            ELSE IF b = 0
            THEN [ready |-> rdy, bc |-> b, outcome |-> "exception"]
            ELSE IF future_set_result(rdy) = "InvalidStateError"
                 THEN [ready |-> rdy, bc |-> b, outcome |-> "exception"]
                 ELSE [ready |-> future_set_result(rdy), bc |-> b, outcome |-> "set"]

(***************************************************************************)
(* Spec: state after Interface.__init__ of every interface                 *)
(***************************************************************************)
NoObs == [res |-> NoRes, err |-> "none", mark_ready |-> "none",
          ready_was |-> "pending", bc_was |-> 0, mr_bc |-> 0, unlocked |-> FALSE]
\* nothing has happened in the session: no notification was accepted or
\* rejected; per subscribe call: requests sent, values put on its queue, where
\* in the queue, and the notifications accepted before the queue was registered
NoLog == [arrived |-> <<>>, rejected |-> 0,
          sub |-> [q \in Queues |-> [sent |-> 0, put |-> 0, at |-> 0, since |-> 0]]]
\* NotificationSession.__init__
SessionIdle ==
    /\ subscriptions = <<>> /\ cache = 0
    /\ queues = [q \in Queues |-> <<>>]
    /\ sub_pc = [q \in Queues |-> "idle"]
    /\ sub_result = [q \in Queues |-> 0]
    /\ wire = <<>> /\ server_val = 1 /\ notified = 0
    /\ slog = NoLog
SemIdle ==
    /\ sem_value = SemaphoreSlots /\ sem_waiters = 0 /\ in_flight = 0
    /\ sem_granted = 0
    /\ tagged = "idle" /\ tagged_ahead = 0 /\ tagged_waited = FALSE
    /\ tagged_timer = "unset"

\* the servers of the model: one that serves a single branch, whatever it
\* announces and however it answers, and one that mixes the branches
ServerProfiles ==
    {[tips |-> {PeerHeader(b, t) : t \in TipHeights}, branches |-> {b},
      max_tips |-> MaxTips] : b \in Branches}
    \cup {[tips |-> {PeerHeader(1, 8)}, branches |-> Branches, max_tips |-> 1]}

\* no function is being called on its own
NoCall == [fn |-> "none"]

\* the file certs/<host>: absent; empty (a CA-signed server); the PEM of a
\* pinned certificate; or content that does not parse as a certificate
NoFile == [kind |-> "absent", cert |-> "none"]
EmptyFile == [kind |-> "empty", cert |-> "none"]
GarbageFile == [kind |-> "garbage", cert |-> "none"]
PemFile(c) == [kind |-> "pem", cert |-> c]
\* no SSL context yet
NoContext == [kind |-> "none", cert |-> "none", check_hostname |-> TRUE]
\* an Interface that has not started _get_ssl_context: its position, its
\* context, the retries of save_certificate, the certificate the server showed
\* to open_session, and what _get_ssl_context did (history)
NewAttempt(n, protocol) ==
    [n |-> n, protocol |-> protocol, pc |-> "idle", ctx |-> NoContext, tries |-> 0,
     presented |-> "none", err |-> "none",
     deleted |-> FALSE, fetched |-> FALSE, wrote |-> FALSE,
     file0 |-> NoFile, expired0 |-> FALSE]
NoHist == [first |-> NoFile, deletions |-> 0, overwrites |-> 0]
\* no request_chunk call was made: _requested_chunks = set()
MaxCallers == 3
Callers == 1 .. MaxCallers
ChunkIdle ==
    /\ requested_chunks = {}
    /\ chunk_calls = [c \in Callers |->
                        [pc |-> "idle", index |-> 0, can_return_early |-> FALSE]]
CertIdle ==
    /\ cert_file = NoFile /\ cert_expired = {}
    /\ att = NewAttempt(1, "s")
    /\ cert_hist = NoHist
\* the Network has spawned the interfaces of 'spawned'; nothing else has happened
Quiescent(spawned, heights, servers) ==
    /\ chains \in {<<[forkpoint |-> 0, height |-> h, br |-> 0]>> : h \in heights}
    /\ server \in servers
    /\ bhi_lock = 0
    /\ run_pc = [i \in Ifaces |-> IF i \in spawned THEN "ssl" ELSE "none"]
    /\ ready = [i \in Ifaces |-> "pending"]
    /\ got_disconnected = [i \in Ifaces |-> "pending"]
    /\ tip = [i \in Ifaces |-> 0]
    /\ tip_header = [i \in Ifaces |-> NoHeader]
    /\ blockchain = [i \in Ifaces |-> 0]
    /\ header_queue = [i \in Ifaces |-> <<>>]
    /\ fb_pc = [i \in Ifaces |-> "off"]
    /\ sy = [i \in Ifaces |-> InitSy]
    /\ closing = [i \in Ifaces |-> FALSE]
    /\ tips_sent = [i \in Ifaces |-> 0]
    /\ hlog = [i \in Ifaces |-> <<>>]
    /\ handed = [i \in Ifaces |-> {}]
    /\ obs = [i \in Ifaces |-> NoObs]
    /\ SessionIdle
    /\ SemIdle
InitWith(spawned, heights, servers) ==
    /\ Quiescent(spawned, heights, servers)
    /\ call = NoCall /\ ret = NoCall
    /\ CertIdle
    /\ ChunkIdle

Init == InitWith({1}, InitHeights, {[i \in Ifaces |-> p] : p \in ServerProfiles})

InProcessing == {"step", "backward", "binary", "chunk"}
Frame(i) == [cs |-> chains, bc |-> blockchain[i], s |-> sy[i], pc |-> fb_pc[i],
             err |-> "none", tip |-> tip[i], handed |-> handed[i], res |-> NoRes]

\* handle_disconnect: the wrapped coroutine ended; connection_down is awaited
EnterHandler(i) ==
    /\ run_pc' = [run_pc EXCEPT ![i] = "handler"]
    /\ hlog' = [hlog EXCEPT ![i] = Append(@, "connection_down")]
    /\ header_queue' = [header_queue EXCEPT ![i] = <<>>]
    /\ tips_sent' = [tips_sent EXCEPT ![i] = server[i].max_tips]

\* the tip watcher ran from one suspension point to the next, ending in frame F;
\* holder held bhi_lock meanwhile, lock is its holder afterwards, q is what is left
\* of header_queue
Commit(i, F, holder, lock, o, q) ==
    /\ Len(F.cs) <= MaxChains
    /\ chains' = F.cs
    /\ blockchain' = [blockchain EXCEPT ![i] = F.bc]
    /\ sy' = [sy EXCEPT ![i] = F.s]
    /\ handed' = [handed EXCEPT ![i] = F.handed]
    /\ fb_pc' = [fb_pc EXCEPT ![i] = F.pc]
    /\ obs' = [obs EXCEPT ![i] = [o EXCEPT !.res = F.res, !.err = F.err,
                                    !.unlocked = @ \/ (F.cs # chains /\ holder # i)]]
    /\ bhi_lock' = lock
    /\ IF F.pc = "raised" THEN EnterHandler(i)
       ELSE /\ header_queue' = [header_queue EXCEPT ![i] = q]
            /\ UNCHANGED <<run_pc, hlog, tips_sent>>
\* 'async with self.network.bhi_lock' is left when the watcher is no longer
\* inside header processing
LockAfter(F, holder) == IF F.pc \in InProcessing THEN holder ELSE 0
FreshObs(i) == [NoObs EXCEPT !.unlocked = obs[i].unlocked]

UNCHANGED_session == UNCHANGED <<server, sessionVars, semVars, callVars, certVars, chunkVars>>

(***************************************************************************)
(* Interface.run and handle_disconnect                                     *)
(***************************************************************************)
\* sub-tasks of the group are cancelled when run leaves open_session
StopTasks(i) ==
    /\ fb_pc' = [fb_pc EXCEPT ![i] = IF @ \in {"off", "raised"} THEN @ ELSE "cancelled"]
    /\ bhi_lock' = IF fb_pc[i] \in InProcessing /\ bhi_lock = i THEN 0 ELSE bhi_lock
    /\ sy' = [sy EXCEPT ![i] = InitSy]

\* _get_ssl_context returns a context (or None for plaintext)
GetSslContext(i) ==
    /\ run_pc[i] = "ssl"
    /\ run_pc' = [run_pc EXCEPT ![i] = "connect"]
    /\ UNCHANGED <<chains, bhi_lock, ready, got_disconnected, tip, tip_header,
                   blockchain, header_queue, fb_pc, sy, closing, tips_sent,
                   hlog, handed, obs>>
    /\ UNCHANGED_session

\* ErrorParsingSSLCert / ErrorGettingSSLCertFromServer: run returns
SslContextFails(i) ==
    /\ run_pc[i] = "ssl"
    /\ EnterHandler(i)
    /\ UNCHANGED <<chains, bhi_lock, ready, got_disconnected, tip, tip_header,
                   blockchain, fb_pc, sy, closing,
                   handed, obs>>
    /\ UNCHANGED_session

\* open_session: the connector is up, server.version is sent
Connect(i) ==
    /\ run_pc[i] = "connect"
    /\ run_pc' = [run_pc EXCEPT ![i] = "version"]
    /\ UNCHANGED <<chains, bhi_lock, ready, got_disconnected, tip, tip_header,
                   blockchain, header_queue, fb_pc, sy, closing, tips_sent,
                   hlog, handed, obs>>
    /\ UNCHANGED_session

\* OSError / SOCKSError in open_session: run returns
ConnectFails(i) ==
    /\ run_pc[i] = "connect"
    /\ EnterHandler(i)
    /\ UNCHANGED <<chains, bhi_lock, ready, got_disconnected, tip, tip_header,
                   blockchain, fb_pc, sy, closing,
                   handed, obs>>
    /\ UNCHANGED_session

\* server.version answered: the three sub-tasks are spawned; the tip watcher
\* subscribes to blockchain.headers.subscribe
VersionOk(i) ==
    /\ run_pc[i] = "version"
    /\ run_pc' = [run_pc EXCEPT ![i] = "tasks"]
    /\ fb_pc' = [fb_pc EXCEPT ![i] = "subscribe"]
    /\ UNCHANGED <<chains, bhi_lock, ready, got_disconnected, tip, tip_header,
                   blockchain, header_queue, sy, closing, tips_sent,
                   hlog, handed, obs>>
    /\ UNCHANGED_session

\* RPCError on server.version (GracefulDisconnect), or the request timed out
VersionFails(i) ==
    /\ run_pc[i] = "version"
    /\ EnterHandler(i)
    /\ UNCHANGED <<chains, bhi_lock, ready, got_disconnected, tip, tip_header,
                   blockchain, fb_pc, sy, closing,
                   handed, obs>>
    /\ UNCHANGED_session

\* the ping sub-task raises (server.ping timed out or failed)
PingRaises(i) ==
    /\ run_pc[i] = "tasks"
    /\ EnterHandler(i)
    /\ StopTasks(i)
    /\ UNCHANGED <<chains, ready, got_disconnected, tip, tip_header,
                   blockchain, closing, handed, obs>>
    /\ UNCHANGED_session

\* Interface.close: session.close()
Close(i) ==
    /\ run_pc[i] \in {"version", "tasks"}
    /\ ~closing[i]
    /\ closing' = [closing EXCEPT ![i] = TRUE]
    /\ UNCHANGED <<chains, bhi_lock, run_pc, ready, got_disconnected, tip, tip_header,
                   blockchain, header_queue, fb_pc, sy, tips_sent, hlog, handed, obs>>
    /\ UNCHANGED_session

\* monitor_connection sees is_closing() and raises GracefulDisconnect
MonitorRaises(i) ==
    /\ run_pc[i] = "tasks"
    /\ closing[i]
    /\ EnterHandler(i)
    /\ StopTasks(i)
    /\ UNCHANGED <<chains, ready, got_disconnected, tip, tip_header,
                   blockchain, closing, handed, obs>>
    /\ UNCHANGED_session

\* the task of run is cancelled while run is suspended in its body
CancelRun(i) ==
    /\ run_pc[i] \in {"ssl", "connect", "version", "tasks"}
    /\ EnterHandler(i)
    /\ StopTasks(i)
    /\ UNCHANGED <<chains, ready, got_disconnected, tip, tip_header,
                   blockchain, closing, handed, obs>>
    /\ UNCHANGED_session

\* handle_disconnect, after connection_down returned:
\* got_disconnected.set_result(1); ready.cancel()
handler_finish(gd, rdy, log) ==
    IF future_set_result(gd) = "InvalidStateError"
    THEN [gd |-> gd, ready |-> rdy, log |-> log]
    ELSE [gd |-> future_set_result(gd), ready |-> future_cancel(rdy),
          log |-> log \o <<"set_disconnected">>
                      \o (IF rdy = "pending" THEN <<"cancel_ready">> ELSE <<>>)]
ConnectionDownReturns(i) ==
    /\ run_pc[i] = "handler"
    /\ LET r == handler_finish(got_disconnected[i], ready[i], hlog[i]) IN
        /\ got_disconnected' = [got_disconnected EXCEPT ![i] = r.gd]
        /\ ready' = [ready EXCEPT ![i] = r.ready]
        /\ hlog' = [hlog EXCEPT ![i] = r.log]
    /\ run_pc' = [run_pc EXCEPT ![i] = "ended"]
    /\ UNCHANGED <<chains, bhi_lock, tip, tip_header, blockchain, header_queue,
                   fb_pc, sy, closing, tips_sent, handed, obs>>
    /\ UNCHANGED_session

\* the task of run is cancelled while the handler awaits connection_down:
\* CancelledError leaves the finally block
CancelInHandler(i) ==
    /\ run_pc[i] = "handler"
    /\ run_pc' = [run_pc EXCEPT ![i] = "ended"]
    /\ UNCHANGED <<chains, bhi_lock, ready, got_disconnected, tip, tip_header,
                   blockchain, header_queue, fb_pc, sy, closing, tips_sent,
                   hlog, handed, obs>>
    /\ UNCHANGED_session

\* whoever awaits self.ready gives up and cancels it
\* ('conn establishment was too slow; *ready* future was cancelled')
ReadyWaiterGivesUp(i) ==
    /\ run_pc[i] \notin {"none", "ended"}
    /\ ready[i] = "pending"
    /\ ready' = [ready EXCEPT ![i] = future_cancel(@)]
    /\ UNCHANGED <<chains, bhi_lock, run_pc, got_disconnected, tip, tip_header,
                   blockchain, header_queue, fb_pc, sy, closing, tips_sent,
                   hlog, handed, obs>>
    /\ UNCHANGED_session

(***************************************************************************)
(* run_fetch_blocks: the tip watcher                                       *)
(***************************************************************************)
\* the response to blockchain.headers.subscribe: subscribe puts it on the queue
SubscribeResult(i, item) ==
    /\ run_pc[i] = "tasks"
    /\ fb_pc[i] = "subscribe"
    /\ tips_sent[i] < server[i].max_tips
    /\ header_queue' = [header_queue EXCEPT ![i] = Append(@, item)]
    /\ fb_pc' = [fb_pc EXCEPT ![i] = "get"]
    /\ tips_sent' = [tips_sent EXCEPT ![i] = @ + 1]
    /\ UNCHANGED <<chains, bhi_lock, run_pc, ready, got_disconnected, tip, tip_header,
                   blockchain, sy, closing, hlog, handed, obs>>
    /\ UNCHANGED_session

\* a notification of a new tip: handle_request puts it on the queue
TipNotification(i, item) ==
    /\ run_pc[i] = "tasks"
    /\ fb_pc[i] \notin {"off", "raised", "cancelled"}
    /\ tips_sent[i] < server[i].max_tips
    /\ header_queue' = [header_queue EXCEPT ![i] = Append(@, item)]
    /\ tips_sent' = [tips_sent EXCEPT ![i] = @ + 1]
    /\ UNCHANGED <<chains, bhi_lock, run_pc, ready, got_disconnected, tip, tip_header,
                   blockchain, fb_pc, sy, closing, hlog, handed, obs>>
    /\ UNCHANGED_session

\* the checkpoint test off by one
tip_below_checkpoint_off_by_one(t) == t + 1 < MaxCheckpoint
\* 'if self.tip < constants.net.max_checkpoint()'
tip_below_checkpoint(t) == t < MaxCheckpoint
\* a lock that never blocks
bhi_lock_never_blocks(lock) == TRUE
\* 'async with self.network.bhi_lock': entered at once when the lock is free
bhi_lock_available(lock) == lock = 0

\* run_fetch_blocks: an item of header_queue, up to the next suspension point
GetTip(i) ==
    /\ run_pc[i] = "tasks"
    /\ fb_pc[i] = "get"
    /\ header_queue[i] # <<>>
    /\ LET item == Head(header_queue[i])
           mr == mark_ready(ready[i], chains, item, blockchain[i])
           F0 == [Frame(i) EXCEPT !.tip = item.block_height]
           o == [FreshObs(i) EXCEPT !.ready_was = ready[i],
                                    !.bc_was = blockchain[i], !.mr_bc = mr.bc]
           rest == Tail(header_queue[i])
       IN
       /\ tip_header' = [tip_header EXCEPT ![i] = item]
       /\ tip' = [tip EXCEPT ![i] = item.block_height]
       /\ IF tip_below_checkpoint(item.block_height)
          THEN /\ Commit(i, Raise(F0, "graceful"), bhi_lock, bhi_lock, o, rest)
               /\ UNCHANGED ready
          ELSE IF mr.outcome \in {"graceful", "exception"}
          THEN /\ Commit(i, Raise([F0 EXCEPT !.bc = mr.bc], mr.outcome),
                         bhi_lock, bhi_lock, [o EXCEPT !.mark_ready = mr.outcome],
                         rest)
               /\ UNCHANGED ready
          ELSE /\ ready' = [ready EXCEPT ![i] = mr.ready]
               /\ IF bhi_lock_available(bhi_lock)
                  THEN LET F == process_header_at_tip([F0 EXCEPT !.bc = mr.bc], item)
                       IN Commit(i, F, i, LockAfter(F, i),
                                 [o EXCEPT !.mark_ready = mr.outcome], rest)
                  ELSE Commit(i, Suspend([F0 EXCEPT !.bc = mr.bc], "lock"),
                              bhi_lock, bhi_lock,
                              [o EXCEPT !.mark_ready = mr.outcome], rest)
    /\ UNCHANGED <<got_disconnected, closing>>
    /\ UNCHANGED_session

\* _process_header_at_tip: bhi_lock was released and is acquired
AcquireLock(i) ==
    /\ run_pc[i] = "tasks"
    /\ fb_pc[i] = "lock"
    /\ bhi_lock_available(bhi_lock)
    /\ LET F == process_header_at_tip(Frame(i), tip_header[i])
       IN Commit(i, F, i, LockAfter(F, i), FreshObs(i), header_queue[i])
    /\ UNCHANGED <<ready, got_disconnected, tip, tip_header, closing>>
    /\ UNCHANGED_session

\* the response to a blockchain.block.header request of step or of a search
HeaderResponse(i, resp) ==
    /\ run_pc[i] = "tasks"
    /\ fb_pc[i] \in {"step", "backward", "binary"}
    /\ LET r == get_block_header(sy[i].height, FALSE, resp)
           F == IF ~r.ok THEN Fail(Frame(i), "exception")
                ELSE IF fb_pc[i] = "step"
                     THEN step(Frame(i), sy[i].height, r.header, r.proof)
                ELSE IF fb_pc[i] = "backward"
                     THEN backward_response(Frame(i), r.header, r.proof)
                ELSE binary_response(Frame(i), r.header)
       IN Commit(i, F, bhi_lock, LockAfter(F, bhi_lock), FreshObs(i), header_queue[i])
    /\ UNCHANGED <<ready, got_disconnected, tip, tip_header, closing>>
    /\ UNCHANGED_session

\* the response to the blockchain.block.headers request of request_chunk
ChunkResponse(i, resp) ==
    /\ run_pc[i] = "tasks"
    /\ fb_pc[i] = "chunk"
    /\ LET F == request_chunk(Frame(i), resp)
       IN Commit(i, F, bhi_lock, LockAfter(F, bhi_lock), FreshObs(i), header_queue[i])
    /\ UNCHANGED <<ready, got_disconnected, tip, tip_header, closing>>
    /\ UNCHANGED_session

\* a request of the tip watcher gets no response in time: RequestTimedOut
RequestTimesOut(i) ==
    /\ run_pc[i] = "tasks"
    /\ fb_pc[i] \in InProcessing \cup {"subscribe"}
    /\ Commit(i, Fail(Frame(i), "graceful"), bhi_lock,
              IF fb_pc[i] \in InProcessing THEN 0 ELSE bhi_lock,
              FreshObs(i), header_queue[i])
    /\ UNCHANGED <<ready, got_disconnected, tip, tip_header, closing>>
    /\ UNCHANGED_session

\* run_fetch_blocks: the Network's switch_* hooks returned; back to the queue
BackToQueue(i) ==
    /\ run_pc[i] = "tasks"
    /\ fb_pc[i] = "post"
    /\ fb_pc' = [fb_pc EXCEPT ![i] = "get"]
    /\ obs' = [obs EXCEPT ![i] = FreshObs(i)]
    /\ UNCHANGED <<chains, bhi_lock, run_pc, ready, got_disconnected, tip, tip_header,
                   blockchain, header_queue, sy, closing, tips_sent, hlog, handed>>
    /\ UNCHANGED_session

\* another interface of the Network takes and releases bhi_lock
OtherAcquiresLock ==
    /\ bhi_lock_available(bhi_lock)
    /\ bhi_lock' = OtherInterface
    /\ UNCHANGED <<chains, run_pc, ready, got_disconnected, tip, tip_header,
                   blockchain, header_queue, fb_pc, sy, closing, tips_sent,
                   hlog, handed, obs>>
    /\ UNCHANGED_session
OtherReleasesLock ==
    /\ bhi_lock = OtherInterface
    /\ bhi_lock' = 0
    /\ UNCHANGED <<chains, run_pc, ready, got_disconnected, tip, tip_header,
                   blockchain, header_queue, fb_pc, sy, closing, tips_sent,
                   hlog, handed, obs>>
    /\ UNCHANGED_session

IfaceNext(i) ==
    \/ GetSslContext(i)
    \/ SslContextFails(i)
    \/ Connect(i)
    \/ ConnectFails(i)
    \/ VersionOk(i)
    \/ VersionFails(i)
    \/ PingRaises(i)
    \/ Close(i)
    \/ MonitorRaises(i)
    \/ CancelRun(i)
    \/ ConnectionDownReturns(i)
    \/ CancelInHandler(i)
    \/ ReadyWaiterGivesUp(i)
    \/ \E item \in server[i].tips : SubscribeResult(i, item)
    \/ \E item \in server[i].tips : TipNotification(i, item)
    \/ GetTip(i)
    \/ AcquireLock(i)
    \/ \E resp \in HeaderResponses(server[i].branches, sy[i].height) :
           HeaderResponse(i, resp)
    \/ \E resp \in ChunkResponses(server[i].branches,
                                  ChunkLen(sy[i].height, sy[i].next_height)) :
           ChunkResponse(i, resp)
    \/ RequestTimesOut(i)
    \/ BackToQueue(i)

\* one interface; the other interfaces of the Network only contend for bhi_lock
Next ==
    \/ IfaceNext(1)
    \/ OtherAcquiresLock
    \/ OtherReleasesLock

Spec == Init /\ [][Next]_vars

\* several interfaces run their tip watchers concurrently
LockInit ==
    InitWith(Ifaces, {7},
             {[i \in Ifaces |->
                 IF i = 1 THEN [tips |-> {PeerHeader(0, 25)}, branches |-> {0},
                                max_tips |-> 1]
                 ELSE [tips |-> {PeerHeader(1, 8)}, branches |-> {1},
                       max_tips |-> 1]]})
LockNext == \E i \in Ifaces : IfaceNext(i)
LockSpec == LockInit /\ [][LockNext]_vars

(***************************************************************************)
(* SessionSpec: NotificationSession.subscribe and handle_request for one   *)
(* key K.  The server's values for K are numbered in the order it has      *)
(* them, so an older value is a smaller number.                            *)
(***************************************************************************)
\* queue.put of every queue of qs
put_all(qv, qs, item) ==
    [q \in Queues |-> IF \E n \in DOMAIN qs : qs[n] = q THEN Append(qv[q], item)
                      ELSE qv[q]]

\* handle_request putting the notification on the first queue of K only
handle_request_first_queue_only(subs, c, qv, result) ==
    IF subs # <<>>
    THEN [ok |-> TRUE, cache |-> result, queues |-> put_all(qv, <<subs[1]>>, result)]
    ELSE [ok |-> FALSE, cache |-> c, queues |-> qv]
\* NotificationSession.handle_request for a Notification of K:
\* [ok, cache, queues]; ok = FALSE when it raises 'unexpected request'
handle_request(subs, c, qv, result) ==
    IF subs # <<>>
    THEN [ok |-> TRUE, cache |-> result, queues |-> put_all(qv, subs, result)]
    ELSE [ok |-> FALSE, cache |-> c, queues |-> qv]

\* subscribe, from the response of send_request on: the cache is written and the
\* result is put on the caller's queue
subscribe_finish(c, qv, q, result) ==
    [cache |-> result, queues |-> [qv EXCEPT ![q] = Append(@, result)]]

\* subscribe sending its request whether or not K is cached
subscribe_always_requests(subs, c, qv, q) ==
    [subs |-> Append(subs, q), queues |-> qv, pc |-> "requested", sent |-> 1, put |-> 0]
\* subscribe(method, params, queue), up to its first suspension point: the
\* queue is registered; a cached value is put on the queue, else one request is
\* sent.  sent / put: requests sent and values put on the queue so far
subscribe(subs, c, qv, q) ==
    IF c # 0
    THEN [subs |-> Append(subs, q), queues |-> [qv EXCEPT ![q] = Append(@, c)],
          pc |-> "done", sent |-> 0, put |-> 1]
    ELSE [subs |-> Append(subs, q), queues |-> qv,
          pc |-> "requested", sent |-> 1, put |-> 0]

Subscribe(q) ==
    /\ sub_pc[q] = "idle"
    /\ LET r == subscribe(subscriptions, cache, queues, q) IN
        /\ subscriptions' = r.subs
        /\ queues' = r.queues
        /\ sub_pc' = [sub_pc EXCEPT ![q] = r.pc]
        /\ slog' = [slog EXCEPT !.sub[q] =
                        [sent |-> r.sent, put |-> r.put,
                         at |-> IF r.put > 0 THEN Len(r.queues[q]) ELSE 0,
                         since |-> Len(slog.arrived)]]
    /\ UNCHANGED <<cache, sub_result, wire, server_val, notified>>
    /\ UNCHANGED <<ifaceVars, semVars, callVars, certVars, chunkVars>>

\* the server answers the request of a subscribe with its current value
ServerAnswers(q) ==
    /\ sub_pc[q] = "requested"
    /\ wire' = Append(wire, [kind |-> "response", to |-> q, val |-> server_val])
    /\ sub_pc' = [sub_pc EXCEPT ![q] = "answered"]
    /\ UNCHANGED <<subscriptions, cache, queues, sub_result, server_val, notified,
                   slog>>
    /\ UNCHANGED <<ifaceVars, semVars, callVars, certVars, chunkVars>>

\* the server's value changes and it notifies the session, whether or not the
\* session has subscribed
ServerNotifies ==
    /\ server_val <= MaxNotifications
    /\ server_val' = server_val + 1
    /\ wire' = Append(wire, [kind |-> "notification", to |-> 0, val |-> server_val + 1])
    /\ UNCHANGED <<subscriptions, cache, queues, sub_pc, sub_result, notified, slog>>
    /\ UNCHANGED <<ifaceVars, semVars, callVars, certVars, chunkVars>>

\* the session reads a response: the future of the request is fulfilled; the
\* subscribe call that awaits it runs when the event loop gets to it
ReceiveResponse ==
    /\ wire # <<>>
    /\ Head(wire).kind = "response"
    /\ sub_result' = [sub_result EXCEPT ![Head(wire).to] = Head(wire).val]
    /\ sub_pc' = [sub_pc EXCEPT ![Head(wire).to] = "resumable"]
    /\ wire' = Tail(wire)
    /\ UNCHANGED <<subscriptions, cache, queues, server_val, notified, slog>>
    /\ UNCHANGED <<ifaceVars, semVars, callVars, certVars, chunkVars>>

\* the session reads a notification: handle_request
ReceiveNotification ==
    /\ wire # <<>>
    /\ Head(wire).kind = "notification"
    /\ LET r == handle_request(subscriptions, cache, queues, Head(wire).val) IN
        /\ cache' = r.cache
        /\ queues' = r.queues
        /\ notified' = IF r.ok THEN Head(wire).val ELSE notified
        /\ slog' = IF r.ok THEN [slog EXCEPT !.arrived = Append(@, Head(wire).val)]
                   ELSE [slog EXCEPT !.rejected = @ + 1]
    /\ wire' = Tail(wire)
    /\ UNCHANGED <<subscriptions, sub_pc, sub_result, server_val>>
    /\ UNCHANGED <<ifaceVars, semVars, callVars, certVars, chunkVars>>

\* subscribe resumes with the result of send_request
SubscribeResumes(q) ==
    /\ sub_pc[q] = "resumable"
    /\ LET r == subscribe_finish(cache, queues, q, sub_result[q]) IN
        /\ cache' = r.cache
        /\ queues' = r.queues
        /\ slog' = [slog EXCEPT !.sub[q].put = @ + 1, !.sub[q].at = Len(r.queues[q])]
    /\ sub_pc' = [sub_pc EXCEPT ![q] = "done"]
    /\ UNCHANGED <<subscriptions, sub_result, wire, server_val, notified>>
    /\ UNCHANGED <<ifaceVars, semVars, callVars, certVars, chunkVars>>

\* no interface runs; the session is all there is
NoServer == [tips |-> {}, branches |-> {}, max_tips |-> 0]
SessionInit == InitWith({}, {MaxCheckpoint}, {[i \in Ifaces |-> NoServer]})
SessionNext ==
    \/ \E q \in Queues : Subscribe(q)
    \/ \E q \in Queues : ServerAnswers(q)
    \/ ServerNotifies
    \/ ReceiveResponse
    \/ ReceiveNotification
    \/ \E q \in Queues : SubscribeResumes(q)
SessionSpec == SessionInit /\ [][SessionNext]_vars

(***************************************************************************)
(* SemSpec: NotificationSession.send_request and the semaphore of in-flight *)
(* requests.  The requests are counted; one of them is observed (tagged).   *)
(***************************************************************************)
\* how the body of 'async with self.in_flight_requests_semaphore' is left
Exits == {"response", "timeout", "error"}
\* RequestTimedOut is a GracefulDisconnect
GracefulDisconnects == {"GracefulDisconnect", "RequestTimedOut"}
SemState == [value |-> sem_value, waiters |-> sem_waiters, granted |-> sem_granted,
             tagged |-> tagged, ahead |-> tagged_ahead, timer |-> tagged_timer]

\* Semaphore.locked(): no slot is free, or earlier callers still wait
semaphore_locked(st) ==
    st.value = 0 \/ st.waiters > 0 \/ st.granted > 0
                 \/ st.tagged \in {"waiting", "granted"}
\* Semaphore.release(): the slot goes to the waiter that has waited longest,
\* else it is free again
semaphore_release(st) ==
    IF st.tagged = "waiting" /\ st.ahead = 0
    THEN [st EXCEPT !.tagged = "granted"]
    ELSE IF st.waiters > 0
    THEN [st EXCEPT !.waiters = @ - 1, !.granted = @ + 1,
                    !.ahead = IF st.tagged = "waiting" THEN @ - 1 ELSE @]
    ELSE [st EXCEPT !.value = @ + 1]

\* send_request releasing its slot only when the response arrived
send_request_exit_on_response_only(st, how) ==
    IF how = "response" THEN semaphore_release(st) ELSE st
\* send_request leaves the 'async with' block: the slot is released whether the
\* response arrived, the request timed out (RequestTimedOut) or it failed
send_request_exit(st, how) == semaphore_release(st)

\* the observed send_request finds no free slot: it waits in 'async with', and
\* the deadline of its request is set as well
send_request_wait_with_deadline(st) ==
    [st EXCEPT !.tagged = "waiting", !.ahead = st.waiters, !.timer = "running"]
\* the observed send_request finds no free slot: it waits in 'async with'; no
\* deadline is set before the body is entered
send_request_wait(st) ==
    [st EXCEPT !.tagged = "waiting", !.ahead = st.waiters]
\* the body of 'async with': the request goes on the wire inside wait_for, whose
\* deadline starts now
send_request_body(st) ==
    [st EXCEPT !.tagged = "flying", !.timer = "running"]
\* how the observed send_request ends: the response is returned, TimeoutError
\* becomes RequestTimedOut, any other exception passes through
send_request_outcome(how) ==
    CASE how = "response" -> "returned"
      [] how = "timeout" -> "RequestTimedOut"
      [] OTHER -> "failed"
\* wait_for: the response and the errors of the transport arrive before the
\* deadline; once the deadline has passed the request is cancelled (TimeoutError)
wait_for_allows(timer, how) ==
    IF how = "timeout" THEN timer = "expired" ELSE timer = "running"

SetSem(st) ==
    /\ sem_value' = st.value
    /\ sem_waiters' = st.waiters
    /\ sem_granted' = st.granted
    /\ tagged' = st.tagged
    /\ tagged_ahead' = st.ahead
    /\ tagged_timer' = st.timer

\* send_request of some caller, up to its first suspension point: it takes a
\* slot and puts the request on the wire, or waits for a slot
SendRequest ==
    /\ IF ~semaphore_locked(SemState)
       THEN /\ sem_value' = sem_value - 1
            /\ in_flight' = in_flight + 1
            /\ UNCHANGED sem_waiters
       ELSE /\ sem_waiters < MaxWaiters
            /\ sem_waiters' = sem_waiters + 1
            /\ UNCHANGED <<sem_value, in_flight>>
    /\ UNCHANGED <<sem_granted, tagged, tagged_ahead, tagged_waited, tagged_timer>>
    /\ UNCHANGED <<ifaceVars, sessionVars, callVars, certVars, chunkVars>>

\* the observed send_request, up to its first suspension point
SendRequestTagged ==
    /\ tagged = "idle"
    /\ IF ~semaphore_locked(SemState)
       THEN /\ SetSem(send_request_body([SemState EXCEPT !.value = @ - 1]))
            /\ in_flight' = in_flight + 1
            /\ UNCHANGED tagged_waited
       ELSE /\ SetSem(send_request_wait(SemState))
            /\ tagged_waited' = TRUE
            /\ UNCHANGED in_flight
    /\ UNCHANGED <<ifaceVars, sessionVars, callVars, certVars, chunkVars>>

\* a waiter that was handed a slot resumes and puts its request on the wire
WaiterResumes ==
    /\ sem_granted > 0
    /\ sem_granted' = sem_granted - 1
    /\ in_flight' = in_flight + 1
    /\ UNCHANGED <<sem_value, sem_waiters, tagged, tagged_ahead, tagged_waited,
                   tagged_timer>>
    /\ UNCHANGED <<ifaceVars, sessionVars, callVars, certVars, chunkVars>>
TaggedResumes ==
    /\ tagged = "granted"
    /\ SetSem(send_request_body(SemState))
    /\ in_flight' = in_flight + 1
    /\ UNCHANGED tagged_waited
    /\ UNCHANGED <<ifaceVars, sessionVars, callVars, certVars, chunkVars>>

\* time passes: the deadline of the observed request is reached
DeadlinePasses ==
    /\ tagged_timer = "running"
    /\ tagged_timer' = "expired"
    /\ UNCHANGED <<sem_value, sem_waiters, in_flight, sem_granted, tagged,
                   tagged_ahead, tagged_waited>>
    /\ UNCHANGED <<ifaceVars, sessionVars, callVars, certVars, chunkVars>>

\* a request on the wire completes, times out or fails
RequestEnds(how) ==
    /\ in_flight > (IF tagged = "flying" THEN 1 ELSE 0)
    /\ in_flight' = in_flight - 1
    /\ SetSem(send_request_exit(SemState, how))
    /\ UNCHANGED tagged_waited
    /\ UNCHANGED <<ifaceVars, sessionVars, callVars, certVars, chunkVars>>
TaggedEnds(how) ==
    /\ tagged = "flying"
    /\ wait_for_allows(tagged_timer, how)
    /\ in_flight' = in_flight - 1
    /\ SetSem([send_request_exit(SemState, how)
                  EXCEPT !.tagged = send_request_outcome(how)])
    /\ UNCHANGED tagged_waited
    /\ UNCHANGED <<ifaceVars, sessionVars, callVars, certVars, chunkVars>>

SemNext ==
    \/ SendRequest
    \/ SendRequestTagged
    \/ WaiterResumes
    \/ TaggedResumes
    \/ DeadlinePasses
    \/ \E how \in Exits : RequestEnds(how)
    \/ \E how \in Exits : TaggedEnds(how)
SemSpec == SessionInit /\ [][SemNext]_vars
\* the event loop resumes every coroutine that was handed a slot, and the
\* outstanding requests complete or time out
FairSemSpec ==
    /\ SemSpec
    /\ WF_vars(WaiterResumes)
    /\ WF_vars(TaggedResumes)
    /\ WF_vars(DeadlinePasses)
    /\ WF_vars(\E how \in Exits : RequestEnds(how))
    /\ WF_vars(\E how \in Exits : TaggedEnds(how))

(***************************************************************************)
(* CallSpec: one call of a function of the interface on inputs of its own.  *)
(***************************************************************************)
MaxCallHeight == 7
GetBlockHeaderCalls ==
    UNION {{[fn |-> "get_block_header", height |-> h, must_provide_proof |-> m,
             resp |-> r] : m \in BOOLEAN, r \in HeaderResponses(Branches, h)} :
           h \in 0 .. MaxCallHeight}

CallGetBlockHeader ==
    /\ call.fn = "get_block_header"
    /\ ret = NoCall
    /\ ret' = [fn |-> call.fn,
               r |-> get_block_header(call.height, call.must_provide_proof, call.resp)]
    /\ UNCHANGED <<call, ifaceVars, sessionVars, semVars, certVars, chunkVars>>

\* request_chunk(height, tip) of an interface bound to a chain of height
\* 'local': below, at and above the first chunk boundaries
RequestChunkCalls ==
    UNION {{[fn |-> "request_chunk", height |-> a.height, tip |-> a.tip,
             local |-> a.local, resp |-> r] :
                r \in ChunkResponses(Branches, ChunkLen(a.height, a.tip))} :
           a \in {[height |-> 4, tip |-> 25, local |-> 7],
                  [height |-> 4, tip |-> 2 * ChunkSize, local |-> 3],
                  [height |-> ChunkSize + 4, tip |-> ChunkSize + 14,
                   local |-> ChunkSize + 3],
                  [height |-> ChunkSize + 4, tip |-> ChunkSize - 16,
                   local |-> ChunkSize + 3],
                  [height |-> 2 * ChunkSize + 8, tip |-> 4 * ChunkSize,
                   local |-> 2 * ChunkSize]}}

CallRequestChunk ==
    /\ call.fn = "request_chunk"
    /\ ret = NoCall
    /\ ret' = [fn |-> call.fn,
               r |-> request_chunk_returns(<<[forkpoint |-> 0, height |-> call.local,
                                              br |-> 0]>>,
                                           1, call.height, call.tip, call.resp)]
    /\ UNCHANGED <<call, ifaceVars, sessionVars, semVars, certVars, chunkVars>>

\* the frame size limit aiorpcx sets by default (1 MB) and the one
\* NotificationSession.__init__ sets, in bytes
default_max_size == 1000000
max_size == 20000000
\* the framer of the session: a frame above framer.max_size is a protocol error
framer_accepts(size) == size <= max_size
\* frames around the limits, in bytes
FrameCalls ==
    {[fn |-> "receive_frame", size |-> n + d] :
        n \in {1, default_max_size, 20000000, 20 * 2^20}, d \in {-1, 0, 1}}

CallReceiveFrame ==
    /\ call.fn = "receive_frame"
    /\ ret = NoCall
    /\ ret' = [fn |-> call.fn, size |-> call.size, accepted |-> framer_accepts(call.size)]
    /\ UNCHANGED <<call, ifaceVars, sessionVars, semVars, certVars, chunkVars>>

\* Server strings.  A str is a sequence of characters; a port is a str,
\* [t |-> "str", v |-> <<"8", "0">>, n |-> 0], or an int,
\* [t |-> "int", v |-> <<>>, n |-> 80]
DecimalDigits == <<"0", "1", "2", "3", "4", "5", "6", "7", "8", "9">>
\* str(x): a str as it is, an int in decimal
str_of(x) ==
    LET RECURSIVE D(_)
        D(k) == IF k < 10 THEN <<DecimalDigits[k + 1]>>
                ELSE D(k \div 10) \o <<DecimalDigits[(k % 10) + 1]>>
    IN IF x.t = "str" THEN x.v
       ELSE IF x.n < 0 THEN <<"-">> \o D(-x.n) ELSE D(x.n)
\* int(s) of a str: [ok, v]; an optional sign and one or more decimal digits
\* (the strings of the model hold no blanks and no underscores)
int_of(s) ==
    LET signed == s # <<>> /\ s[1] \in {"-", "+"}
        body == IF signed THEN Tail(s) ELSE s
        isdigit(c) == \E k \in 1 .. 10 : DecimalDigits[k] = c
        d(c) == (CHOOSE k \in 1 .. 10 : DecimalDigits[k] = c) - 1
        val[n \in 0 .. Len(body)] == IF n = 0 THEN 0 ELSE val[n - 1] * 10 + d(body[n])
    IN IF body = <<>> \/ \E n \in 1 .. Len(body) : ~isdigit(body[n])
       THEN [ok |-> FALSE, v |-> 0]
       ELSE [ok |-> TRUE, v |-> IF signed /\ s[1] = "-" THEN -val[Len(body)]
                                ELSE val[Len(body)]]
\* s.split(sep, maxsplit): the parts, split at the first maxsplit separators
RECURSIVE rsplit_from_the_left(_, _, _)
rsplit_from_the_left(s, sep, maxsplit) ==
    LET P == {i \in 1 .. Len(s) : s[i] = sep} IN
    IF maxsplit = 0 \/ P = {} THEN <<s>>
    ELSE LET p == CHOOSE i \in P : \A j \in P : i <= j
         IN <<SubSeq(s, 1, p - 1)>>
                \o rsplit_from_the_left(SubSeq(s, p + 1, Len(s)), sep, maxsplit - 1)
\* s.rsplit(sep, maxsplit): the parts, split at the last maxsplit separators
RECURSIVE rsplit(_, _, _)
rsplit(s, sep, maxsplit) ==
    LET P == {i \in 1 .. Len(s) : s[i] = sep} IN
    IF maxsplit = 0 \/ P = {} THEN <<s>>
    ELSE LET p == CHOOSE i \in P : \A j \in P : j <= i
         IN Append(rsplit(SubSeq(s, 1, p - 1), sep, maxsplit - 1),
                   SubSeq(s, p + 1, Len(s)))

\* deserialize_server(server_str): [ok, host, port, protocol]; ok = FALSE when
\* it raises ValueError.  The port returned is the str between the colons
deserialize_server(server_str) ==
    LET parts == rsplit(server_str, ":", 2)
        Rejected == [ok |-> FALSE, host |-> <<>>,
                     port |-> [t |-> "str", v |-> <<>>, n |-> 0], protocol |-> <<>>]
    IN IF Len(parts) # 3 THEN Rejected
       ELSE LET host == parts[1]
                port == parts[2]
                protocol == parts[3]
            IN IF host = <<>> THEN Rejected
               ELSE IF protocol \notin {<<"s">>, <<"t">>} THEN Rejected
               ELSE IF ~int_of(port).ok THEN Rejected
               ELSE IF ~(0 < int_of(port).v /\ int_of(port).v < 2^16) THEN Rejected
               ELSE [ok |-> TRUE, host |-> host,
                     port |-> [t |-> "str", v |-> port, n |-> 0], protocol |-> protocol]

\* serialize_server(host, port, protocol): ':'.join([host, str(port), protocol])
serialize_server(host, port, protocol) ==
    host \o <<":">> \o str_of(port) \o <<":">> \o protocol

\* triples (valid and not) whose serialization is parsed back, and server
\* strings with fewer than two colons (args = <<>>)
ServerCalls ==
    {[fn |-> "deserialize_server", args |-> <<h, p, x>>,
      server_str |-> serialize_server(h, p, x)] :
        h \in {<<>>, <<"h">>, <<":", ":", "1">>, <<"h", ":">>, <<"1", ":", "s">>},
        p \in {[t |-> "int", v |-> <<>>, n |-> k] : k \in {-1, 0, 1, 80, 2^16 - 1, 2^16}}
            \cup {[t |-> "str", v |-> s, n |-> 0] :
                    s \in {<<>>, <<"0">>, <<"1">>, <<"8", "0">>, <<"0", "8", "0">>,
                           <<"6", "5", "5", "3", "5">>, <<"6", "5", "5", "3", "6">>,
                           <<"-", "1">>, <<"8", "h">>, <<"h">>}},
        x \in {<<>>, <<"s">>, <<"t">>, <<"h">>, <<"s", "t">>}}
    \cup {[fn |-> "deserialize_server", args |-> <<>>, server_str |-> s] :
            s \in {<<>>, <<"h">>, <<"h", ":", "8", "0">>, <<"8", "0", ":", "s">>}}

CallDeserializeServer ==
    /\ call.fn = "deserialize_server"
    /\ ret = NoCall
    /\ ret' = [fn |-> call.fn, r |-> deserialize_server(call.server_str)]
    /\ UNCHANGED <<call, ifaceVars, sessionVars, semVars, certVars, chunkVars>>

\* _process_header_at_tip of an interface alone: a store of one chain of
\* height 'local' (0: the store holds the genesis header only) and, possibly,
\* of a fork that holds its first header only; a server on branch b
\* announcing 'tip'; the single-header requests are then answered one
\* by one.  ret: the frame, the height of the last fetch, whether the header
\* fetched checked against a chain or could connect, whether the response was
\* well-formed
ProcessHeaderCalls ==
    {[fn |-> "process_header_at_tip", local |-> l, forks |-> <<>>, tip |-> t, b |-> b] :
        l \in {0, MaxCheckpoint, 7, 20}, t \in {8, 25}, b \in Branches}
    \cup {[fn |-> "process_header_at_tip", local |-> l, tip |-> t, b |-> b,
           forks |-> <<[forkpoint |-> BranchPoint[1], height |-> BranchPoint[1],
                        br |-> 1]>>] :
            l \in {7, 20}, t \in {8, 25}, b \in Branches}

CallProcessHeader ==
    /\ call.fn = "process_header_at_tip"
    /\ \/ /\ ret = NoCall
          /\ LET F == [cs |-> <<[forkpoint |-> 0, height |-> call.local, br |-> 0]>>
                                  \o call.forks,
                       bc |-> 1, s |-> InitSy, pc |-> "lock", err |-> "none",
                       tip |-> call.tip, handed |-> {}, res |-> NoRes]
             IN ret' = [fn |-> call.fn, fetched |-> -1, links |-> FALSE, ok |-> TRUE,
                        F |-> process_header_at_tip(F, PeerHeader(call.b, call.tip))]
       \/ /\ ret # NoCall
          /\ ret.F.pc \in {"step", "backward", "binary"}
          /\ \E resp \in HeaderResponses({call.b}, ret.F.s.height) :
                LET F == [ret.F EXCEPT !.res = NoRes]
                    r == get_block_header(F.s.height, FALSE, resp)
                IN ret' = [fn |-> call.fn, fetched |-> F.s.height, ok |-> r.ok,
                           links |-> r.ok /\ (\/ check_header(F.cs, r.header) # 0
                                              \/ can_connect(F.cs, r.header) # 0),
                           F |-> IF ~r.ok THEN Fail(F, "exception")
                                 ELSE IF F.pc = "step"
                                      THEN step(F, F.s.height, r.header, r.proof)
                                 ELSE IF F.pc = "backward"
                                      THEN backward_response(F, r.header, r.proof)
                                 ELSE binary_response(F, r.header)]
    /\ UNCHANGED <<call, ifaceVars, sessionVars, semVars, certVars, chunkVars>>

CallInit ==
    /\ Quiescent({}, {MaxCheckpoint}, {[i \in Ifaces |-> NoServer]})
    /\ call \in GetBlockHeaderCalls \cup RequestChunkCalls \cup FrameCalls
                    \cup ServerCalls \cup ProcessHeaderCalls
    /\ ret = NoCall
    /\ CertIdle
    /\ ChunkIdle
CallNext ==
    \/ CallGetBlockHeader
    \/ CallRequestChunk
    \/ CallReceiveFrame
    \/ CallDeserializeServer
    \/ CallProcessHeader
CallSpec == CallInit /\ [][CallNext]_vars

(***************************************************************************)
(* CertSpec: the certificate store of one host over successive connection   *)
(* attempts (one Interface each, one at a time), a server that may present  *)
(* any certificate at any handshake, and certificates that expire.          *)
(***************************************************************************)
MaxAttempts == 3
CertRetries == 10
\* what a server may present: a chain signed by a CA, or a self-signed certificate
SelfSigned == {"C1", "C2"}
ServerCerts == {"CA"} \cup SelfSigned
\* how the handshake and server.version of is_server_ca_signed may end
ProbeOutcomes == {"ca_signed", "CERTIFICATE_VERIFY_FAILED", "OSError",
                  "GracefulDisconnect"}

\* _is_saved_ssl_cert_available keeping an expired certificate
is_saved_ssl_cert_available_keeps_expired(file, expired) ==
    [ret |-> IF file.kind = "absent" THEN "False"
             ELSE IF file.kind = "garbage" THEN "ErrorParsingSSLCert"
             ELSE IF file.kind = "pem" /\ file.cert \in expired THEN "False"
             ELSE "True",
     file |-> file, deleted |-> FALSE]
\* _is_saved_ssl_cert_available deleting a file that does not parse
is_saved_ssl_cert_available_deletes_unparsable(file, expired) ==
    IF file.kind \in {"absent", "empty"}
    THEN [ret |-> IF file.kind = "empty" THEN "True" ELSE "False", file |-> file,
          deleted |-> FALSE]
    ELSE IF file.kind = "garbage"
    THEN [ret |-> "ErrorParsingSSLCert", file |-> NoFile, deleted |-> TRUE]
    ELSE IF file.cert \in expired
    THEN [ret |-> "False", file |-> NoFile, deleted |-> TRUE]
    ELSE [ret |-> "True", file |-> file, deleted |-> FALSE]
\* Interface._is_saved_ssl_cert_available: what it returns or raises, the file
\* afterwards, and whether it deleted it
is_saved_ssl_cert_available(file, expired) ==
    IF file.kind = "absent" THEN [ret |-> "False", file |-> file, deleted |-> FALSE]
    ELSE IF file.kind = "empty" THEN [ret |-> "True", file |-> file, deleted |-> FALSE]
    ELSE IF file.kind = "garbage"
    THEN [ret |-> "ErrorParsingSSLCert", file |-> file, deleted |-> FALSE]
    ELSE IF file.cert \in expired
    THEN \* os.unlink(self.cert_path)
         [ret |-> "False", file |-> NoFile, deleted |-> TRUE]
    ELSE [ret |-> "True", file |-> file, deleted |-> FALSE]

\* _get_ssl_context pinning without regard to the file's content
ssl_context_pins_anything(file) ==
    [kind |-> "pinned", cert |-> "any", check_hostname |-> FALSE]
\* _get_ssl_context, once a file is in the store: the CA context for an empty
\* file, else a context that trusts only the file's certificate
ssl_context(file) ==
    IF file.kind = "empty"
    THEN [kind |-> "ca", cert |-> "none", check_hostname |-> TRUE]
    ELSE [kind |-> "pinned", cert |-> file.cert, check_hostname |-> FALSE]

\* the store after open(self.cert_path, 'w') and a write of 'content'
write_cert(S, content) ==
    [S EXCEPT !.file = content,
              !.hist.first = IF @ = NoFile THEN content ELSE @,
              !.hist.overwrites = IF S.file = NoFile THEN @ ELSE @ + 1,
              !.att.wrote = TRUE]
\* _get_ssl_context returns sslc to run
have_context(S) ==
    [S EXCEPT !.att.ctx = ssl_context(S.file), !.att.pc = "connect"]
cert_failed(S, err) == [S EXCEPT !.att.pc = "failed", !.att.err = err]

\* Interface._get_ssl_context up to its first suspension point; S = [file,
\* expired, att, hist]
get_ssl_context(S) ==
    LET T == [S EXCEPT !.att.file0 = S.file,
                       !.att.expired0 = S.file.kind = "pem" /\ S.file.cert \in S.expired]
    IN
    IF T.att.protocol # "s"
    THEN [T EXCEPT !.att.ctx = [kind |-> "plain", cert |-> "none",
                                check_hostname |-> FALSE],
                   !.att.pc = "connect"]
    ELSE LET r == is_saved_ssl_cert_available(T.file, T.expired)
             U == [T EXCEPT !.file = r.file, !.att.deleted = r.deleted,
                            !.hist.deletions = IF r.deleted THEN @ + 1 ELSE @]
         IN
         IF r.ret = "ErrorParsingSSLCert" THEN cert_failed(U, r.ret)
         ELSE IF r.ret = "True" THEN have_context(U)
         ELSE \* _try_saving_ssl_cert_for_first_time: is_server_ca_signed is awaited
              [U EXCEPT !.att.pc = "probe"]

\* Interface._try_saving_ssl_cert_for_first_time, from the outcome of
\* is_server_ca_signed on
try_saving_ssl_cert_for_first_time(S, outcome) ==
    IF outcome = "OSError" THEN cert_failed(S, "ErrorGettingSSLCertFromServer")
    ELSE IF outcome = "GracefulDisconnect" THEN cert_failed(S, outcome)
    ELSE IF outcome = "ca_signed" THEN have_context(write_cert(S, EmptyFile))
    ELSE \* save_certificate
         IF S.file.kind = "absent" THEN [S EXCEPT !.att.pc = "fetch", !.att.tries = 0]
         ELSE have_context(S)

\* Interface.save_certificate, from one answer of get_certificate on
save_certificate(S, dercert) ==
    IF dercert = "OSError" THEN cert_failed(S, dercert)
    ELSE IF dercert = "none"
    THEN IF S.att.tries + 1 >= CertRetries
         THEN cert_failed(S, "Exception")
         ELSE [S EXCEPT !.att.tries = @ + 1]
    ELSE have_context(write_cert([S EXCEPT !.att.fetched = TRUE], PemFile(dercert)))

\* the TLS handshake of Interface.open_session under the context of the attempt
open_session(S, presented) ==
    LET ok == CASE S.att.ctx.kind = "plain" -> presented # "OSError"
                [] S.att.ctx.kind = "ca" -> presented = "CA"
                [] OTHER -> presented = S.att.ctx.cert \/ S.att.ctx.cert = "any"
    IN [S EXCEPT !.att.presented = presented,
                 !.att.pc = IF ok THEN "established" ELSE "failed",
                 !.att.err = IF ok THEN "none" ELSE "OSError"]

Store == [file |-> cert_file, expired |-> cert_expired, att |-> att, hist |-> cert_hist]
SetStore(S) ==
    /\ cert_file' = S.file
    /\ cert_expired' = S.expired
    /\ att' = S.att
    /\ cert_hist' = S.hist
    /\ UNCHANGED <<ifaceVars, sessionVars, semVars, callVars, chunkVars>>

StartGetSslContext ==
    /\ att.pc = "idle"
    /\ SetStore(get_ssl_context(Store))
CaProbe(outcome) ==
    /\ att.pc = "probe"
    /\ SetStore(try_saving_ssl_cert_for_first_time(Store, outcome))
GetCertificate(dercert) ==
    /\ att.pc = "fetch"
    /\ SetStore(save_certificate(Store, dercert))
OpenSession(presented) ==
    /\ att.pc = "connect"
    /\ SetStore(open_session(Store, presented))
\* the Network spawns the next Interface for the host
NextInterface ==
    /\ att.pc \in {"established", "failed"}
    /\ att.n < MaxAttempts
    /\ SetStore([Store EXCEPT !.att = NewAttempt(att.n + 1, att.protocol)])
\* time passes: the validity of a certificate ends
CertificateExpires(c) ==
    /\ c \notin cert_expired
    /\ SetStore([Store EXCEPT !.expired = @ \cup {c}])

CertInit ==
    /\ Quiescent({}, {MaxCheckpoint}, {[i \in Ifaces |-> NoServer]})
    /\ call = NoCall /\ ret = NoCall
    /\ cert_file \in {NoFile, EmptyFile, GarbageFile}
    /\ cert_expired = {}
    /\ att \in {NewAttempt(1, p) : p \in {"s", "t"}}
    /\ cert_hist = [NoHist EXCEPT !.first = cert_file]
    /\ ChunkIdle
CertNext ==
    \/ StartGetSslContext
    \/ \E outcome \in ProbeOutcomes : CaProbe(outcome)
    \/ \E dercert \in ServerCerts \cup {"none", "OSError"} : GetCertificate(dercert)
    \/ \E presented \in ServerCerts \cup {"OSError"} : OpenSession(presented)
    \/ NextInterface
    \/ \E c \in ServerCerts : CertificateExpires(c)
CertSpec == CertInit /\ [][CertNext]_vars

(***************************************************************************)
(* ChunkSpec: request_chunk called concurrently on one interface, by        *)
(* sync_until and through Network.request_chunk.                            *)
(***************************************************************************)
\* request_chunk(height, tip, can_return_early), index = height // 2016, up to
\* the await of request_headers: "early" when it returns at once
RequestChunkCalled(c, index, can_return_early) ==
    /\ chunk_calls[c].pc # "awaiting"
    /\ IF can_return_early /\ index \in requested_chunks
       THEN /\ chunk_calls' = [chunk_calls EXCEPT ![c] =
                    [pc |-> "early", index |-> index,
                     can_return_early |-> can_return_early]]
            /\ UNCHANGED requested_chunks
       ELSE /\ requested_chunks' = requested_chunks \cup {index}
            /\ chunk_calls' = [chunk_calls EXCEPT ![c] =
                    [pc |-> "awaiting", index |-> index,
                     can_return_early |-> can_return_early]]
    /\ UNCHANGED <<ifaceVars, sessionVars, semVars, callVars, certVars>>

\* request_headers returns or raises: the finally clause removes the index
RequestHeadersEnds(c, how) ==
    /\ chunk_calls[c].pc = "awaiting"
    /\ requested_chunks' = requested_chunks \ {chunk_calls[c].index}
    /\ chunk_calls' = [chunk_calls EXCEPT ![c].pc = how]
    /\ UNCHANGED <<ifaceVars, sessionVars, semVars, callVars, certVars>>

ChunkInit ==
    /\ Quiescent({}, {MaxCheckpoint}, {[i \in Ifaces |-> NoServer]})
    /\ call = NoCall /\ ret = NoCall
    /\ CertIdle
    /\ ChunkIdle
ChunkNext ==
    \/ \E c \in Callers, index \in {0, 1}, can_return_early \in BOOLEAN :
            RequestChunkCalled(c, index, can_return_early)
    \/ \E c \in Callers, how \in {"returned", "raised"} : RequestHeadersEnds(c, how)
ChunkSpec == ChunkInit /\ [][ChunkNext]_vars

(***************************************************************************)
(* Properties                                                              *)
(***************************************************************************)
\* C2: every header at height h <= max_checkpoint() handed to the Blockchain
\* collaborator (can_connect / save_header in step, connect_chunk in
\* request_chunk) was first validated by validate_checkpoint_result
C2_CheckpointHeadersValidated ==
    \A i \in Ifaces : \A e \in handed[i] : e.proven

\* C3: whenever Interface.run has ended, the disconnect handler has run once and
\* did, in this order: connection_down, fulfil got_disconnected, cancel ready if
\* it was pending
C3_HandlerRunsInOrder ==
    \A i \in Ifaces :
        run_pc[i] = "ended" =>
            /\ got_disconnected[i] = "fulfilled"
            /\ ready[i] # "pending"
            /\ hlog[i] \in {<<"connection_down", "set_disconnected">>,
                            <<"connection_down", "set_disconnected", "cancel_ready">>}

\* C4: the ready latch and the disconnected latch are each completed at most
\* once: ready is fulfilled only by mark_ready, never fulfilled after being
\* cancelled nor cancelled after being fulfilled (mark_ready on a cancelled latch
\* raises GracefulDisconnect, on a fulfilled latch it is a no-op); disconnected
\* is fulfilled only by the disconnect handler and never twice
C4_LatchesCompletedOnce ==
    /\ [][\A i \in Ifaces :
            /\ ready[i] # "pending" => ready'[i] = ready[i]
            /\ (ready[i] = "pending" /\ ready'[i] = "fulfilled")
                  => obs'[i].mark_ready = "set"
            /\ got_disconnected[i] # "pending"
                  => got_disconnected'[i] = got_disconnected[i]
            /\ got_disconnected'[i] # got_disconnected[i]
                  => /\ run_pc[i] = "handler"
                     /\ got_disconnected'[i] = "fulfilled"]_vars
    /\ [](\A i \in Ifaces :
            /\ ready[i] \in {"pending", "fulfilled", "cancelled"}
            /\ got_disconnected[i] \in {"pending", "fulfilled"}
            /\ obs[i].mark_ready # "none" =>
                  /\ obs[i].ready_was = "cancelled" =>
                        /\ obs[i].mark_ready = "graceful"
                        /\ obs[i].err = "graceful"
                        /\ ready[i] = "cancelled"
                  /\ obs[i].ready_was = "fulfilled" =>
                        /\ obs[i].mark_ready = "noop"
                        /\ ready[i] = "fulfilled"
                  /\ obs[i].ready_was = "pending" => obs[i].mark_ready = "set")
\* mark_ready met a cancelled latch, and the handler then fulfilled disconnected
C4_Witness ==
    \E i \in Ifaces :
        /\ obs[i].mark_ready = "graceful"
        /\ obs[i].ready_was = "cancelled"
        /\ got_disconnected[i] = "fulfilled"

\* C8: whenever the ready latch is fulfilled the interface is bound to one
\* known chain; the binding is first set by mark_ready (nothing is bound before
\* the latch is fulfilled) and a later mark_ready does not change it
C8_BoundOnceReady ==
    \A i \in Ifaces :
        /\ ready[i] = "fulfilled" => blockchain[i] \in DOMAIN chains
        /\ blockchain[i] # 0 => ready[i] = "fulfilled"
        /\ obs[i].mark_ready = "set" => obs[i].bc_was = 0 /\ obs[i].mr_bc # 0
        /\ obs[i].mark_ready = "noop" => obs[i].mr_bc = obs[i].bc_was
\* a later tip finds the interface bound to a fork it created
C8_Witness ==
    \E i \in Ifaces :
        /\ obs[i].mark_ready = "noop"
        /\ obs[i].bc_was > 1
        /\ blockchain[i] \in DOMAIN chains

\* C9 (as claimed): once set, the tip height is >= max_checkpoint() in every state
C9_TipNeverBelowCheckpoint ==
    \A i \in Ifaces : tip_header[i] # NoHeader => tip[i] >= MaxCheckpoint
\* C9 (amended): a tip below max_checkpoint() is stored and then makes the tip
\* watcher raise a graceful disconnect before mark_ready and before any header
\* processing, so it never fulfils the ready latch; in every state in which the
\* tip watcher is still running the tip is >= max_checkpoint()
C9_TipBelowCheckpointDisconnects ==
    \A i \in Ifaces :
        (tip_header[i] # NoHeader /\ tip[i] < MaxCheckpoint) =>
            /\ fb_pc[i] = "raised"
            /\ run_pc[i] \in {"handler", "ended"}
            /\ obs[i].err = "graceful"
            /\ obs[i].mark_ready = "none"
            /\ obs[i].res.probes = {}
            /\ ready[i] = "fulfilled" => obs[i].ready_was = "fulfilled"
\* a first tip below the checkpoint ended the interface, ready was cancelled
C9_Witness ==
    \E i \in Ifaces :
        /\ tip_header[i] # NoHeader /\ tip[i] < MaxCheckpoint
        /\ run_pc[i] = "ended"
        /\ ready[i] = "cancelled"
        /\ handed[i] = {}

\* C5: at most one interface at a time is inside header processing, it holds
\* bhi_lock, and no tip watcher changed the blockchain store without holding it
C5_ProcessingSerialized ==
    /\ Cardinality({i \in Ifaces : fb_pc[i] \in InProcessing}) <= 1
    /\ \A i \in Ifaces :
          /\ fb_pc[i] \in InProcessing => bhi_lock = i
          /\ ~obs[i].unlocked
\* one interface changed the store under the lock while another waits for it
C5_Witness ==
    \E i, j \in Ifaces :
        /\ i # j
        /\ fb_pc[i] \in InProcessing /\ bhi_lock = i
        /\ fb_pc[j] = "lock"
        /\ \E k \in DOMAIN chains : chains[k].height > 7

\* C6: when step(tip, tip_header) has ended and, for some d with
\* max_checkpoint() < d <= tip, every header it probed below d checked against a
\* known chain, every header it probed at d or above neither checked nor could
\* connect, the header at d links to the header at d-1 and the bound chain is
\* higher than d-1, then it returned ('fork', d+1) with good = d-1, bad = d,
\* bad_header the header at d, and the interface is bound to a new chain whose
\* forkpoint is d
C6_ForkLocated ==
    \A i \in Ifaces : \A d \in (MaxCheckpoint + 1) .. tip[i] :
        LET r == obs[i].res IN
        ( /\ r.last # "none" /\ r.from = "tip"
          /\ \E p \in r.probes : p.height = tip[i]
          /\ \A p \in r.probes :
                IF p.height < d THEN p.checks ELSE ~p.checks /\ ~p.connects
          /\ \E p, q \in r.probes :
                p.height = d /\ q.height = d - 1 /\ p.prev = q.blk
          /\ r.last = "fork" \/ r.bh > d - 1 )
        => /\ r.last = "fork" /\ r.height = d + 1
           /\ r.good = d - 1 /\ r.bad = d
           /\ r.bad_header.block_height = d
           /\ \E p \in r.probes : p.height = d /\ p.blk = r.bad_header.blk
           /\ blockchain[i] \in DOMAIN chains
           /\ chains[blockchain[i]].forkpoint = d
           /\ chains[blockchain[i]].br = r.bad_header.blk
\* step found the fork after a backward probe and a binary search of several
\* requests
C6_Witness ==
    \E i \in Ifaces :
        LET r == obs[i].res IN
        /\ r.last = "fork" /\ r.from = "tip"
        /\ r.bad = BranchPoint[1] /\ r.height = BranchPoint[1] + 1
        /\ Cardinality({p \in r.probes : p.checks}) >= 1
        /\ Cardinality({p \in r.probes : ~p.checks}) >= 3
        /\ chains[blockchain[i]].forkpoint = BranchPoint[1]

\* C7: an iteration of sync_until that ends with the (last, height) pair it
\* started with aborts sync_until, whichever branch the iteration took
C7_SamePairAborts ==
    \A i \in Ifaces :
        LET r == obs[i].res IN
        ( /\ r.from \in {"sync", "sync_continue"}
          /\ r.last \notin {"none", "raised"}
          /\ <<r.last, r.height>> = <<r.prev_last, r.prev_height>> )
        => fb_pc[i] = "raised"

\* C1: a subscribe never stores in cache[K], nor leaves as the most recent value
\* of a subscribed queue, a value older than a notification for K that was
\* already delivered: the cache and the last value of every subscribed queue
\* are never older than the last notification handled
C1_NoStaleSubscribe ==
    notified # 0 =>
        /\ cache # 0 => cache >= notified
        /\ \A n \in DOMAIN subscriptions :
              LET q == subscriptions[n] IN
              queues[q] # <<>> => queues[q][Len(queues[q])] >= notified

\* C10: at most 100 requests are outstanding on the wire; every slot taken is
\* given back when its request completes, times out or fails; and a
\* send_request that waits for a slot eventually gets one and sends its request
C10_BoundedInFlightNoStarvation ==
    /\ [](/\ in_flight <= SemaphoreSlots
          /\ sem_value >= 0
          /\ sem_value + sem_granted + in_flight
                + (IF tagged = "granted" THEN 1 ELSE 0) = SemaphoreSlots)
    /\ (tagged = "waiting") ~> (tagged = "flying")
\* the observed request waited behind other waiters and is now on the wire with
\* 99 others
C10_Witness ==
    /\ tagged = "flying"
    /\ tagged_waited
    /\ in_flight = SemaphoreSlots
    /\ sem_waiters > 0

\* C11: a send_request whose response has not arrived when its deadline passes
\* fails with RequestTimedOut, a GracefulDisconnect, and with nothing else; the
\* deadline is set only when the slot has been acquired, so a send_request that
\* waits for a slot has no deadline and leaves the wait only by getting its slot
C11_TimeoutStartsOnTheWire ==
    /\ [](tagged \in {"idle", "waiting", "granted"} => tagged_timer = "unset")
    /\ [](tagged = "RequestTimedOut" => /\ tagged_timer = "expired"
                                        /\ tagged \in GracefulDisconnects)
    /\ [][ /\ (tagged \in {"waiting", "granted"})
                => tagged' \in {"waiting", "granted", "flying"}
           /\ (tagged = "flying" /\ tagged_timer = "expired" /\ tagged' # "flying")
                => tagged' = "RequestTimedOut"
           /\ (tagged = "flying" /\ tagged' = "RequestTimedOut")
                => tagged_timer = "expired"]_vars
\* the observed request waited for its slot, went on the wire and timed out there
C11_Witness ==
    /\ tagged = "RequestTimedOut"
    /\ tagged_waited
    /\ tagged_timer = "expired"

\* C12: subscribe(method, params, queue) registers the queue under K; if K is
\* cached it puts the cached value on the queue and sends no request; else it
\* sends exactly one request, stores the response as cache[K] and puts it on the
\* queue; either way a finished subscribe call has itself put exactly one value
\* on its queue
C12_SubscribeDeliversOnce ==
    /\ [][\A q \in Queues :
            /\ (sub_pc[q] = "idle" /\ sub_pc'[q] # "idle") =>
                  /\ subscriptions' = Append(subscriptions, q)
                  /\ cache' = cache
                  /\ IF cache # 0
                     THEN /\ queues' = [queues EXCEPT ![q] = Append(@, cache)]
                          /\ sub_pc'[q] = "done"
                          /\ slog'.sub[q].sent = 0
                     ELSE /\ queues' = queues
                          /\ sub_pc'[q] = "requested"
                          /\ slog'.sub[q].sent = 1
            /\ (sub_pc[q] # "idle" /\ sub_pc[q] # "done" /\ sub_pc'[q] = "done") =>
                  /\ cache' = sub_result[q]
                  /\ queues' = [queues EXCEPT ![q] = Append(@, sub_result[q])]
            /\ sub_pc[q] # "idle" => slog'.sub[q].sent = slog.sub[q].sent]_vars
    /\ [](\A q \in Queues :
            /\ slog.sub[q].sent <= 1
            /\ sub_pc[q] = "done" =>
                  /\ slog.sub[q].put = 1
                  /\ Cardinality({n \in DOMAIN subscriptions : subscriptions[n] = q}) = 1)
\* one subscribe found the cache empty and sent a request, another found K
\* cached and sent none; both are finished
C12_Witness ==
    \E q1, q2 \in Queues :
        /\ sub_pc[q1] = "done" /\ slog.sub[q1].sent = 1 /\ slog.sub[q1].put = 1
        /\ sub_pc[q2] = "done" /\ slog.sub[q2].sent = 0 /\ slog.sub[q2].put = 1

\* C13: handle_request on a notification of a known key K sets cache[K] to the
\* notification's value and appends the notification once to every queue
\* registered under K, so that each queue holds, besides the value its subscribe
\* call put, the notifications accepted since it was registered, in arrival
\* order; a notification of an unknown key is rejected with an error and
\* changes neither the cache nor any queue
C13_NotificationFanOut ==
    /\ [][(wire # <<>> /\ Head(wire).kind = "notification" /\ wire' = Tail(wire)) =>
            IF subscriptions # <<>>
            THEN /\ cache' = Head(wire).val
                 /\ \A q \in Queues :
                        queues'[q] = IF \E n \in DOMAIN subscriptions : subscriptions[n] = q
                                     THEN Append(queues[q], Head(wire).val)
                                     ELSE queues[q]
                 /\ slog'.arrived = Append(slog.arrived, Head(wire).val)
                 /\ slog'.rejected = slog.rejected
            ELSE /\ cache' = cache
                 /\ queues' = queues
                 /\ slog'.rejected = slog.rejected + 1
                 /\ slog'.arrived = slog.arrived]_vars
    /\ [](\A q \in Queues :
            LET own == slog.sub[q].at
                got == [n \in 1 .. (Len(queues[q]) - (IF own > 0 THEN 1 ELSE 0)) |->
                           IF own > 0 /\ n >= own THEN queues[q][n + 1] ELSE queues[q][n]]
            IN  (\E n \in DOMAIN subscriptions : subscriptions[n] = q)
                    => got = SubSeq(slog.arrived, slog.sub[q].since + 1, Len(slog.arrived)))
\* a notification was rejected before K was known, two were accepted later, and
\* a queue registered between them holds only the second
C13_Witness ==
    /\ slog.rejected > 0
    /\ Len(slog.arrived) = 2
    /\ \E q1, q2 \in Queues :
          /\ slog.sub[q1].since = 0 /\ sub_pc[q1] = "done"
          /\ slog.sub[q2].since = 1 /\ sub_pc[q2] = "done"
          /\ Len(queues[q1]) = 3 /\ Len(queues[q2]) = 2

\* C14: get_block_header(height, mode, must_provide_proof) returns the header of
\* the response with proof_was_provided true exactly when height <=
\* max_checkpoint() and the {root, branch, header} envelope passed
\* validate_checkpoint_result; it raises, returning no header, when height >
\* max_checkpoint() and must_provide_proof is set, when height >
\* max_checkpoint() and an envelope is sent anyway, when height <=
\* max_checkpoint() and the envelope is absent, and when the envelope's root or
\* branch does not validate
C14_GetBlockHeaderProof ==
    ret.fn = "get_block_header" =>
        LET h == call.height
            resp == call.resp
            valid == validate_checkpoint_result(resp.root, resp.branch, resp.hdr, h)
        IN
        /\ ret.r.ok => ret.r.header = resp.hdr
        /\ ret.r.ok =>
              (ret.r.proof <=> (h <= MaxCheckpoint /\ resp.env = "full" /\ valid))
        /\ ret.r.ok /\ h <= MaxCheckpoint => ret.r.proof
        /\ ~ret.r.ok => ret.r.header = NoHeader /\ ~ret.r.proof
        /\ (h > MaxCheckpoint /\ call.must_provide_proof) => ~ret.r.ok
        /\ (h > MaxCheckpoint /\ resp.env = "full") => ~ret.r.ok
        /\ (h <= MaxCheckpoint /\ resp.env # "full") => ~ret.r.ok
        /\ (resp.env = "full" /\ ~valid) => ~ret.r.ok
        /\ (h > MaxCheckpoint /\ ~call.must_provide_proof /\ resp.env = "none")
              => ret.r.ok
\* a header at the checkpoint height was returned with its proof
C14_Witness ==
    /\ ret.fn = "get_block_header"
    /\ call.height = MaxCheckpoint
    /\ ret.r.ok /\ ret.r.proof
    /\ ret.r.header = call.resp.hdr

\* C15: request_chunk(start_height, tip) with index = start_height div 2016
\* requests min(2016, max(0, tip - index*2016 + 1)) headers from index*2016;
\* when the chunk connects it returns (connected, count) with count the number
\* of headers the server delivered in the payload, 0 <= count <= the number
\* requested; when the chunk does not connect it returns count 0
C15_ChunkCountIsDelivered ==
    (ret.fn = "request_chunk" /\ ret.r.ok) =>
        LET index == call.height \div 2016
            want == Min(2016, Max(0, call.tip - index * 2016 + 1))
        IN
        /\ ret.r.start = index * 2016
        /\ ret.r.size = want
        /\ ret.r.conn => /\ ret.r.count = call.resp.n
                         /\ 0 <= ret.r.count /\ ret.r.count <= want
        /\ ~ret.r.conn => ret.r.count = 0

\* C16: when the pinned file exists, is non-empty, parses and is expired,
\* acquiring the TLS context deletes the file and fails that call: no
\* certificate is fetched from the server and no file is written during the
\* same call, which yields no context
C16_ExpiredFailsTheCall ==
    att.expired0 =>
        /\ att.deleted
        /\ ~att.fetched
        /\ ~att.wrote
        /\ att.pc \notin {"connect", "established"}
\* C16 (as the code has it): when the pinned file is expired, acquiring the TLS
\* context deletes it and goes on, in the same call, as on a first contact: the
\* call yields a context only after it has written a new file (empty for a
\* CA-signed server, else the certificate fetched from the server), the
\* context being that of the new file; it fails only if the probe or the fetch
\* fails, and then the file stays deleted
C16_ExpiredRepinsInTheSameCall ==
    att.expired0 =>
        /\ att.deleted
        /\ att.pc \in {"probe", "fetch"} => (cert_file = NoFile /\ ~att.wrote)
        /\ att.pc \in {"connect", "established"} =>
              /\ att.wrote
              /\ cert_file.kind \in {"empty", "pem"}
              /\ att.fetched <=> cert_file.kind = "pem"
              /\ att.ctx = ssl_context(cert_file)
        /\ (att.pc = "failed" /\ ~att.wrote) => cert_file = NoFile
\* the attempt found C1 pinned and expired, and is established with C2 pinned
C16_Witness ==
    /\ att.expired0
    /\ att.file0 = PemFile("C1")
    /\ att.pc = "established"
    /\ att.fetched
    /\ cert_file = PemFile("C2")

\* C17: the certificate file is deleted only when it is non-empty, parses and
\* is expired; otherwise an attempt that finds a file leaves it as it is (empty
\* file, file that does not parse, server presenting another certificate), an
\* error while fetching writes nothing, and a file is written only when none
\* exists
C17_FileDeletedOnlyIfExpired ==
    /\ [][cert_file' # cert_file =>
             \/ /\ cert_file' = NoFile
                /\ cert_file.kind = "pem"
                /\ cert_file.cert \in cert_expired
             \/ /\ cert_file = NoFile
                /\ cert_file'.kind \in {"empty", "pem"}]_vars
    /\ [](/\ cert_hist.overwrites = 0
          /\ (att.pc # "idle" /\ att.file0 # NoFile /\ ~att.expired0)
                => (cert_file = att.file0 /\ ~att.deleted /\ ~att.wrote)
          /\ att.err \in {"ErrorParsingSSLCert", "ErrorGettingSSLCertFromServer"}
                => ~att.wrote
          /\ att.deleted => att.expired0)
\* the server presented C2 to an interface that has C1 pinned: the handshake
\* failed and the file still holds C1
C17_Witness ==
    /\ att.file0 = PemFile("C1")
    /\ att.pc = "failed"
    /\ att.presented = "C2"
    /\ cert_file = PemFile("C1")

\* C18: once a first contact has pinned a self-signed certificate C1, every
\* later connection uses a context that trusts only C1 with the hostname check
\* disabled, and is established only if the server presents C1; a host first
\* recorded as CA-signed keeps the CA context
C18_PinNeverChanges ==
    (att.protocol = "s" /\ att.pc \in {"connect", "established"}) =>
        /\ cert_hist.first.kind = "pem" =>
              /\ att.ctx = [kind |-> "pinned", cert |-> cert_hist.first.cert,
                            check_hostname |-> FALSE]
              /\ att.pc = "established" => att.presented = cert_hist.first.cert
        /\ cert_hist.first.kind = "empty" => att.ctx.kind = "ca"
\* C18 (as the code has it): every connection uses the context of the file in
\* the store: for a pinned certificate a context that trusts only it, with the
\* hostname check disabled, established only if the server presents that very
\* certificate; for an empty file the CA context.  The pinned certificate is
\* the one of the first contact for as long as no expired file has been
\* deleted, and a host recorded as CA-signed stays so
C18_PinStableUntilExpiry ==
    /\ (att.protocol = "s" /\ att.pc \in {"connect", "established"}) =>
          /\ att.ctx = ssl_context(cert_file)
          /\ cert_file.kind = "pem" =>
                /\ att.ctx = [kind |-> "pinned", cert |-> cert_file.cert,
                              check_hostname |-> FALSE]
                /\ att.pc = "established" => att.presented = cert_file.cert
          /\ cert_file.kind = "empty" =>
                /\ att.ctx.kind = "ca"
                /\ att.pc = "established" => att.presented = "CA"
    /\ (cert_hist.deletions = 0 /\ cert_hist.first.kind \in {"empty", "pem"})
          => cert_file = cert_hist.first
    /\ cert_hist.first.kind = "empty" => cert_file = EmptyFile
\* a later interface found C1 pinned by the first contact and is established
\* with a server presenting C1
C18_Witness ==
    /\ att.n > 1
    /\ cert_hist.first = PemFile("C1")
    /\ cert_hist.deletions = 0
    /\ att.pc = "established"
    /\ att.presented = "C1"
    /\ att.ctx.cert = "C1"

\* C19: after close() was called on an interface that has a session, the run
\* of the interface ends only with the ping and tip-watcher sub-tasks stopped
\* and the disconnected latch fulfilled
C19_CloseEndsDisconnected ==
    \A i \in Ifaces :
        (closing[i] /\ run_pc[i] = "ended") =>
            /\ fb_pc[i] \in {"off", "cancelled", "raised"}
            /\ got_disconnected[i] = "fulfilled"

\* C20: every request the tip watcher has pending while it holds bhi_lock (the
\* single-header requests of step and of the two searches, and the chunk
\* requests of sync_until) has the Urgent timeout class
C20_UrgentUnderLock ==
    \A i \in Ifaces :
        (bhi_lock = i /\ fb_pc[i] \in InProcessing) => sy[i].timeout = "Urgent"

\* C21: the inbound frame size limit is 20 MiB: a frame is rejected for its
\* size exactly when it is larger than 20 * 2^20 bytes
C21_FrameLimitTwentyMiB ==
    ret.fn = "receive_frame" => (ret.accepted <=> ret.size <= 20 * 2^20)

\* C21, as the code has it: the limit is 20 MB, 20,000,000 bytes: a frame is
\* rejected for its size exactly when it is larger than that
C21_FrameLimitTwentyMillion ==
    ret.fn = "receive_frame" => (ret.accepted <=> ret.size <= 20000000)
C21_Witness ==
    /\ ret.fn = "receive_frame"
    /\ ret.size = 20000000 + 1
    /\ ~ret.accepted

\* C22: the server string of a valid triple (host non-empty, 0 < port < 65536,
\* protocol s or t) parses back to the same triple, and every string whose
\* host is empty, whose port is no number or out of range, or whose protocol
\* is not s or t is rejected
C22_AddressRoundTrip ==
    (ret.fn = "deserialize_server" /\ call.args # <<>>) =>
        LET host == call.args[1]
            port == call.args[2]
            protocol == call.args[3]
            number == IF port.t = "int" THEN [ok |-> TRUE, v |-> port.n]
                      ELSE int_of(port.v)
            valid == /\ host # <<>>
                     /\ number.ok /\ 0 < number.v /\ number.v < 65536
                     /\ protocol \in {<<"s">>, <<"t">>}
        IN /\ valid => (ret.r.ok /\ <<ret.r.host, ret.r.port, ret.r.protocol>> = call.args)
           /\ ~valid => ~ret.r.ok

\* C22, as the code has it: the triple that comes back holds the port as the
\* decimal string str(port), so it equals the triple given when the port was
\* given as a string; invalid triples, and strings with fewer than two colons,
\* are rejected
C22_RoundTripPortAsString ==
    ret.fn = "deserialize_server" =>
        IF call.args = <<>> THEN ~ret.r.ok
        ELSE LET host == call.args[1]
                 port == call.args[2]
                 protocol == call.args[3]
                 number == IF port.t = "int" THEN [ok |-> TRUE, v |-> port.n]
                           ELSE int_of(port.v)
                 valid == /\ host # <<>>
                          /\ number.ok /\ 0 < number.v /\ number.v < 65536
                          /\ protocol \in {<<"s">>, <<"t">>}
                 same == <<ret.r.host, ret.r.port, ret.r.protocol>> = call.args
             IN /\ valid => (ret.r.ok /\ ret.r.host = host /\ ret.r.protocol = protocol)
                /\ valid => (ret.r.port.t = "str" /\ ret.r.port.v = str_of(port))
                /\ (valid /\ port.t = "str") => same
                /\ (valid /\ port.t = "int") => ~same
                /\ ~valid => ~ret.r.ok
C22_Witness ==
    /\ ret.fn = "deserialize_server"
    /\ call.args # <<>>
    /\ call.args[1] = <<":", ":", "1">>
    /\ call.args[2].t = "int"
    /\ ret.r.ok

\* C23: the backward probe never fetches below max_checkpoint(); a fetched
\* header that checks against a chain or can connect ends the search by a
\* return; one that does neither makes the search raise GracefulDisconnect when
\* it was fetched at max_checkpoint() after the clamp, and otherwise fetch
\* again at a strictly lower height, tip - 2 * (tip - height) or, when that
\* is at or below max_checkpoint(), max_checkpoint() itself
C23_BackwardProbeTerminates ==
    /\ []((ret.fn = "process_header_at_tip" /\ ret.F.pc = "backward") =>
            /\ ret.F.s.height >= MaxCheckpoint
            /\ ret.F.s.height <= call.tip
            /\ ret.F.s.checkp => ret.F.s.height = MaxCheckpoint)
    /\ [][(ret.fn = "process_header_at_tip" /\ ret.F.pc = "backward" /\ ret'.ok) =>
            LET h == ret.F.s.height
                next == call.tip - 2 * (call.tip - h)
                graceful == ret'.F.pc = "raised" /\ ret'.F.err = "graceful"
            IN
            /\ ret'.fetched = h
            /\ IF ret'.links THEN ret'.F.pc # "backward" /\ ~graceful
               ELSE IF ret.F.s.checkp THEN graceful
               ELSE /\ ret'.F.pc = "backward"
                    /\ ret'.F.s.height < h
                    /\ ret'.F.s.height = Max(next, MaxCheckpoint)
                    /\ ret'.F.s.checkp <=> next <= MaxCheckpoint
      ]_vars
\* two fetches above the checkpoint found no link, the probe was clamped to
\* the checkpoint and the header there checked
C23_Witness ==
    /\ ret.fn = "process_header_at_tip"
    /\ ret.fetched = MaxCheckpoint
    /\ ret.links
    /\ ret.F.pc = "binary"
    /\ ret.F.s.bad < call.local

\* C24 (as claimed): the binary search fetches only while good + 1 < bad, at a
\* midpoint strictly between good and bad
C24_BinarySearchStrictlyBetween ==
    \A i \in Ifaces : fb_pc[i] = "binary" =>
        /\ sy[i].good + 1 < sy[i].bad
        /\ sy[i].good < sy[i].height /\ sy[i].height < sy[i].bad

\* C24 (amended): the binary search fetches at m = (good + bad) div 2 with
\* good <= m < bad, m = good only in a search entered with good + 1 = bad; a
\* header that checks sets good = m, another sets bad = m and bad_header to
\* it; the search goes on only with good + 1 < bad and a smaller bad - good,
\* and when step has returned 'fork' or 'no_fork' after it, good + 1 = bad and
\* bad_header is the header fetched at bad, which did not check and links to a
\* header fetched at good that checked
C24_BinarySearchNarrows ==
    /\ [](\A i \in Ifaces : fb_pc[i] = "binary" =>
            /\ sy[i].good < sy[i].bad
            /\ sy[i].height = (sy[i].good + sy[i].bad) \div 2
            /\ sy[i].good <= sy[i].height /\ sy[i].height < sy[i].bad
            /\ sy[i].height = sy[i].good => sy[i].good + 1 = sy[i].bad)
    /\ [][\A i \in Ifaces :
            (fb_pc[i] = "binary" /\ fb_pc'[i] = "binary" /\ sy'[i] # sy[i]) =>
                LET m == sy[i].height
                    s == sy[i]
                    n == sy'[i]
                IN
                /\ \/ /\ n.good = m /\ n.bad = s.bad /\ n.bad_header = s.bad_header
                      /\ \E p \in n.probes : p.height = m /\ p.checks
                   \/ /\ n.bad = m /\ n.good = s.good
                      /\ n.bad_header.block_height = m
                      /\ \E p \in n.probes :
                            p.height = m /\ ~p.checks /\ p.blk = n.bad_header.blk
                /\ n.good + 1 < n.bad
                /\ n.bad - n.good < s.bad - s.good
                /\ s.good < m
      ]_vars
    /\ [](\A i \in Ifaces :
            LET r == obs[i].res IN
            r.last \in {"fork", "no_fork"} =>
                /\ r.good + 1 = r.bad
                /\ r.bad_header.block_height = r.bad
                /\ \E p, q \in r.probes :
                      /\ p.height = r.bad /\ ~p.checks /\ p.blk = r.bad_header.blk
                      /\ q.height = r.good /\ q.checks /\ p.prev = q.blk)
\* a search of several fetches, some that checked and some that did not, after
\* which step returned
C24_Witness ==
    \E i \in Ifaces :
        LET r == obs[i].res IN
        /\ r.last \in {"fork", "no_fork"}
        /\ r.good + 1 = r.bad
        /\ \E p, q \in r.probes : p.checks /\ q.checks /\ p.height < q.height
        /\ \E p, q \in r.probes : ~p.checks /\ ~q.checks /\ p.height < q.height
                                  /\ q.height < tip[i]

\* C25: fork resolution with the bound chain at height good creates no fork,
\* leaves the binding as it is and returns ('no_fork', good + 1); with the
\* bound chain higher than good it creates exactly one fork, from bad_header
\* and with forkpoint bad, binds the interface to it and returns
\* ('fork', bad + 1)
C25_ForkResolution ==
    LET r == ret.F.res
        e == ret.F.res.entry
        chains_now == ret.F.cs
        bound == ret.F.bc
    IN
    (ret.fn = "process_header_at_tip" /\ e.bc # 0 /\ r.last \in {"fork", "no_fork"}) =>
        /\ r.good + 1 = r.bad
        /\ e.bh >= r.good
        /\ e.bh = r.good =>
              /\ r.last = "no_fork" /\ r.height = r.good + 1
              /\ Len(chains_now) = e.chains
              /\ bound = e.bc
        /\ e.bh > r.good =>
              /\ r.last = "fork" /\ r.height = r.bad + 1
              /\ Len(chains_now) = e.chains + 1
              /\ bound = Len(chains_now) /\ bound # e.bc
              /\ chains_now[bound].forkpoint = r.bad
              /\ chains_now[bound].br = r.bad_header.blk
\* a resolution that found the bound chain, a fork, at good
C25_Witness ==
    /\ ret.fn = "process_header_at_tip"
    /\ ret.F.res.last = "no_fork"
    /\ ret.F.res.entry.bh = ret.F.res.good
    /\ ret.F.res.entry.bc = 2
    /\ ret.F.bc = 2

\* C26: _requested_chunks holds exactly the chunk indices being fetched: at
\* every moment an index is in the set if and only if some request_chunk call
\* for it awaits its response
C26_RequestedChunksExact ==
    \A index \in {0, 1} :
        index \in requested_chunks <=>
            \E c \in Callers : /\ chunk_calls[c].pc = "awaiting"
                               /\ chunk_calls[c].index = index

\* C27: inside sync_until the height never exceeds next_height + 1; a chunk
\* that connected moves the height to (height div 2016) * 2016 + num_headers,
\* num_headers being the count request_chunk returned, and aborts sync_until
\* when that is above next_height + 1; sync_until returns only with
\* height = next_height + 1
C27_SyncUntilHeight ==
    \A i \in Ifaces :
        /\ (\/ fb_pc[i] = "chunk"
            \/ fb_pc[i] = "step" /\ sy[i].caller \in {"sync", "sync_continue"}) =>
              sy[i].height <= sy[i].next_height + 1
        /\ (run_pc[i] = "tasks" /\ fb_pc[i] = "chunk") =>
              \A resp \in ChunkResponses(server[i].branches,
                                         ChunkLen(sy[i].height, sy[i].next_height)) :
                LET r == request_chunk_returns(chains, blockchain[i], sy[i].height,
                                               sy[i].next_height, resp)
                    F == request_chunk(Frame(i), resp)
                    new == (sy[i].height \div 2016) * 2016 + r.count
                    next_height == sy[i].next_height
                IN (r.ok /\ r.conn) =>
                     /\ new > next_height + 1 => F.pc = "raised" /\ F.err = "exception"
                     /\ (new <= next_height /\ F.pc # "raised") =>
                           /\ F.pc \in {"chunk", "step"}
                           /\ F.s.height = new /\ F.s.last = "catchup"
                     /\ new = next_height + 1 =>
                           /\ F.pc = "post"
                           /\ F.res.sync = [last |-> "catchup", height |-> new,
                                             next_height |-> next_height]
        /\ obs[i].res.sync.last # "none" =>
              obs[i].res.sync.height = obs[i].res.sync.next_height + 1
\* sync_until returned after a chunk that reached the tip
C27_Witness ==
    \E i \in Ifaces :
        /\ obs[i].res.sync.last = "catchup"
        /\ obs[i].res.sync.height = tip[i] + 1
        /\ obs[i].res.last = "none"
        /\ tip[i] > ChunkCutoff
\* C28: throughout the binary search the bound chain contains the peer's header
\* at height good, also after the search rebound to another known chain at a
\* midpoint; at entry to fork resolution the bound chain contains that header
\* too, so its height is at least good and the assertion of line 670 holds.
C28_BoundChainHoldsGood ==
    ret.fn = "process_header_at_tip" =>
        LET F == ret.F
            e == F.res.entry
        IN  /\ (F.pc = "binary" =>
                   /\ F.bc \in DOMAIN F.cs
                   /\ ChainHas(F.cs[F.bc], PeerHeader(call.b, F.s.good))
                   /\ F.cs[F.bc].height >= F.s.good)
            /\ (e.bc # 0 =>
                   /\ e.bc \in DOMAIN F.cs
                   /\ ChainHas(F.cs[e.bc], PeerHeader(call.b, F.res.good))
                   /\ e.bh >= F.res.good)

\* a search that rebound to the fork at a midpoint and awaits its next header
C28_Witness ==
    /\ ret.fn = "process_header_at_tip"
    /\ ret.F.pc = "binary"
    /\ Len(ret.F.cs) = 2
    /\ ret.F.bc = 2
    /\ ret.F.s.good > MaxCheckpoint
    /\ \E p \in ret.F.s.probes : p.height = ret.F.s.good /\ p.checks

====
